---- MODULE Spec2Model ----
(***************************************************************************)
(* The typed heterogeneous graph store of DGL, python/dgl/heterograph.py:  *)
(* the type resolver, the frames of a DGLHeteroGraph object, the message   *)
(* buffer and indicator of each relation, the message-passing calls and    *)
(* the scoped views (local_var, local_scope).                              *)
(*                                                                         *)
(* Python objects are modelled by identity: tensors and frames live in     *)
(* heaps, a frame maps a field name to a tensor id, a DGLHeteroGraph       *)
(* object maps a type id to a frame id.  Ids of the code (node, edge, type *)
(* ids) are 0-based, so the lists they index are functions over 0..n-1.    *)
(* A feature row is one integer (the feature dimension D is dropped).      *)
(***************************************************************************)
EXTENDS Integers, Sequences, FiniteSets, TLC

VARIABLES
    tensors,   \* heap of column tensors: id -> [row -> value]
    frames,    \* heap of Frame objects: id -> [cols, inits, dflt, nrows]
    objs,      \* heap of DGLHeteroGraph objects; objs[1] is the Store
    scopes,    \* per object, the stack of frames saved by open local_scope blocks
    calls,     \* user functions invoked by the last call, in order
    pre,       \* tensors, frames and objs as they were before the last call
    history    \* the calls made so far: name, object, arguments and outcome

vars == <<tensors, frames, objs, scopes, calls, pre, history>>

(***************************************************************************)
(* Bounds of the model.                                                    *)
(***************************************************************************)
MaxSteps == 3     \* calls of a run of the send / recv protocol
MaxFused == 2     \* calls of a run of the fused message-passing calls

--------------------------------------------------------------------------
(* Lists of the code as functions over 0..n-1. *)
ZSeq(s) == [i \in 0..(Len(s) - 1) |-> s[i + 1]]

Rows(n) == 0..(n - 1)

Size(f) == Cardinality(DOMAIN f)

EmptyMap == [x \in {} |-> 0]

RECURSIVE SumOver(_, _)
SumOver(S, f) ==
    IF S = {} THEN 0
    ELSE LET x == CHOOSE y \in S : TRUE IN f[x] + SumOver(S \ {x}, f)

RECURSIVE MaxOver(_, _)
MaxOver(S, f) ==
    LET x == CHOOSE y \in S : TRUE IN
    IF S = {x} THEN f[x]
    ELSE LET m == MaxOver(S \ {x}, f) IN IF f[x] > m THEN f[x] ELSE m

--------------------------------------------------------------------------
(***************************************************************************)
(* Structural index (immutable).  A graph index holds the node types, the  *)
(* bare edge type names, the metagraph (etid -> <<stid, dtid>>), the node  *)
(* count of each node type and the (src, dst) list of each edge type.      *)
(***************************************************************************)
GraphIndex(ntypes, etypes, meta, nnodes, edges) ==
    [ntypes |-> ZSeq(ntypes), etypes |-> ZSeq(etypes), meta |-> ZSeq(meta),
     nnodes |-> ZSeq(nnodes), edges |-> ZSeq(edges)]

\* dgl.graph(elist): one node type '_N', one edge type '_E'
HomoGraph(n, elist) ==
    GraphIndex(<<"_N">>, <<"_E">>, << <<0, 0>> >>, <<n>>, <<ZSeq(elist)>>)

\* test_recv_0deg, test_pull_0deg: dgl.graph([(0,1)])
Graph01 == HomoGraph(2, << <<0, 1>> >>)

\* test_send_multigraph: dgl.graph([(0,1), (0,1), (0,1), (2,1)])
GraphMulti == HomoGraph(3, << <<0, 1>>, <<0, 1>>, <<0, 1>>, <<2, 1>> >>)

\* test_update_all_0deg, test#2: dgl.graph([], card=n)
GraphNoEdge == HomoGraph(2, << >>)

\* the recv example: dgl.graph([(0, 1), (1, 2)])
GraphChain == HomoGraph(3, << <<0, 1>>, <<1, 2>> >>)

\* generate_graph of the tests: 10 nodes, 17 edges
GraphGen ==
    HomoGraph(10, << <<0, 1>>, <<1, 9>>, <<0, 2>>, <<2, 9>>, <<0, 3>>, <<3, 9>>,
                     <<0, 4>>, <<4, 9>>, <<0, 5>>, <<5, 9>>, <<0, 6>>, <<6, 9>>,
                     <<0, 7>>, <<7, 9>>, <<0, 8>>, <<8, 9>>, <<9, 0>> >>)

\* the example of to_canonical_etype: g1 = user-follows->user,
\* g2 = user-plays->game, g3 = developer-follows->game
GraphAmbig ==
    GraphIndex(<<"user", "game", "developer">>,
               <<"follows", "plays", "follows">>,
               << <<0, 0>>, <<0, 1>>, <<2, 1>> >>,
               <<3, 2, 2>>,
               << ZSeq(<< <<0, 1>>, <<1, 2>> >>),
                  ZSeq(<< <<0, 0>>, <<1, 0>>, <<1, 1>>, <<2, 1>> >>),
                  ZSeq(<< <<0, 0>>, <<1, 1>> >>) >>)

\* the example of recv and pull: follows_g and plays_g
GraphTwoRel ==
    GraphIndex(<<"user", "game">>,
               <<"follows", "plays">>,
               << <<0, 0>>, <<0, 1>> >>,
               <<3, 2>>,
               << ZSeq(<< <<0, 1>>, <<1, 2>> >>),
                  ZSeq(<< <<0, 0>>, <<1, 0>>, <<1, 1>>, <<2, 1>> >>) >>)

number_of_ntypes(g) == Size(g.ntypes)
number_of_etypes(g) == Size(g.etypes)
number_of_nodes(g, ntid) == g.nnodes[ntid]
number_of_edges(g, etid) == Size(g.edges[etid])
find_edge(g, etid) == g.meta[etid]
EdgeSrc(g, etid, e) == g.edges[etid][e][1]
EdgeDst(g, etid, e) == g.edges[etid][e][2]
AllEdges(g, etid) == DOMAIN g.edges[etid]
AllNodes(g, ntid) == Rows(g.nnodes[ntid])

\* in_edges with the endpoints swapped: the edges leaving V
in_edges_swapped(g, etid, V) == {e \in DOMAIN g.edges[etid] : g.edges[etid][e][1] \in V}

\* AdaptedHeteroGraph.in_edges / out_edges: the edge ids entering / leaving nodes V
in_edges(g, etid, V) == {e \in AllEdges(g, etid) : EdgeDst(g, etid, e) \in V}
out_edges(g, etid, U) == {e \in AllEdges(g, etid) : EdgeSrc(g, etid, e) \in U}

\* _graph.edge_ids(etid, u, v): every edge between the given endpoint pairs
edge_ids(g, etid, pairs) ==
    {e \in AllEdges(g, etid) : <<EdgeSrc(g, etid, e), EdgeDst(g, etid, e)>> \in pairs}

DstNodes(g, etid, E) == {EdgeDst(g, etid, e) : e \in E}

--------------------------------------------------------------------------
(***************************************************************************)
(* Type resolver.  An edge type argument is None, a bare name (str) or a   *)
(* (srctype, etype, dsttype) tuple; the result of a call is a value or a   *)
(* DGLError.                                                               *)
(***************************************************************************)
NoneArg == [kind |-> "none", name |-> "", triple |-> <<>>]
StrArg(s) == [kind |-> "str", name |-> s, triple |-> <<>>]
TupleArg(t) == [kind |-> "tuple", name |-> "", triple |-> t]

Ok(v) == [ok |-> TRUE, val |-> v, err |-> ""]
Raise(e) == [ok |-> FALSE, val |-> <<>>, err |-> e]

ErrNotExist == "does not exist"
ErrAmbiguous == "is ambiguous"
ErrMustSpecify == "must be specified"

make_canonical_etypes(etypes, ntypes, meta) ==
    [i \in DOMAIN etypes |-> <<ntypes[meta[i][1]], etypes[i], ntypes[meta[i][2]]>>]

canonical_etypes(g) == make_canonical_etypes(g.etypes, g.ntypes, g.meta)

\* the map of __init__ without the test for a name seen before: the last
\* relation of a name wins
RECURSIVE Etype2CanonicalLastWins(_, _)
Etype2CanonicalLastWins(g, n) ==
    IF n = 0 THEN EmptyMap
    ELSE (g.etypes[n - 1] :> canonical_etypes(g)[n - 1])
             @@ Etype2CanonicalLastWins(g, n - 1)

\* __init__: the map from a bare name to its canonical tuple, after the
\* first n edge types; a name seen twice maps to the empty tuple
RECURSIVE Etype2CanonicalUpTo(_, _)
Etype2CanonicalUpTo(g, n) ==
    IF n = 0 THEN EmptyMap
    ELSE LET m == Etype2CanonicalUpTo(g, n - 1)
             ety == g.etypes[n - 1]
         IN  IF ety \in DOMAIN m
             THEN [m EXCEPT ![ety] = <<>>]
             ELSE (ety :> canonical_etypes(g)[n - 1]) @@ m

etype2canonical(g) == Etype2CanonicalUpTo(g, number_of_etypes(g))

\* __init__: {t : i for i, t in enumerate(...)}; a later index wins
ntypes_invmap(g) ==
    [t \in {g.ntypes[i] : i \in DOMAIN g.ntypes} |->
        CHOOSE i \in DOMAIN g.ntypes :
            /\ g.ntypes[i] = t
            /\ \A j \in DOMAIN g.ntypes : g.ntypes[j] = t => j <= i]

etypes_invmap(g) ==
    LET c == canonical_etypes(g) IN
    [t \in {c[i] : i \in DOMAIN c} |->
        CHOOSE i \in DOMAIN c : c[i] = t /\ \A j \in DOMAIN c : c[j] = t => j <= i]

to_canonical_etype(g, etype) ==
    IF etype.kind = "tuple" THEN Ok(etype.triple)
    ELSE IF etype.kind = "none" \/ etype.name \notin DOMAIN etype2canonical(g)
         THEN Raise(ErrNotExist)
    ELSE IF Len(etype2canonical(g)[etype.name]) = 0 THEN Raise(ErrAmbiguous)
    ELSE Ok(etype2canonical(g)[etype.name])

\* get_ntype_id that takes None for the first node type whatever the graph
get_ntype_id_none_is_first(g, ntype) ==
    IF ntype.kind = "none" THEN Ok(0)
    ELSE IF ntype.name \notin DOMAIN ntypes_invmap(g) THEN Raise(ErrNotExist)
    ELSE Ok(ntypes_invmap(g)[ntype.name])

get_ntype_id(g, ntype) ==
    IF ntype.kind = "none"
    THEN IF number_of_ntypes(g) # 1 THEN Raise(ErrMustSpecify) ELSE Ok(0)
    ELSE IF ntype.name \notin DOMAIN ntypes_invmap(g) THEN Raise(ErrNotExist)
    ELSE Ok(ntypes_invmap(g)[ntype.name])

get_etype_id(g, etype) ==
    IF etype.kind = "none"
    THEN IF number_of_etypes(g) # 1 THEN Raise(ErrMustSpecify) ELSE Ok(0)
    ELSE LET c == to_canonical_etype(g, etype) IN
         IF ~c.ok THEN c
         ELSE IF c.val \notin DOMAIN etypes_invmap(g) THEN Raise(ErrNotExist)
         ELSE Ok(etypes_invmap(g)[c.val])

--------------------------------------------------------------------------
(***************************************************************************)
(* Selections.  ALL is the slice over every id; a tuple (u, v) selects     *)
(* edges by their endpoints; any other selection is a list of ids          *)
(* (utils.toindex), in the caller's order.                                 *)
(***************************************************************************)
ALL == [all |-> TRUE, tuple |-> FALSE, ids |-> EmptyMap, pairs |-> {}]
Ids(l) == [all |-> FALSE, tuple |-> FALSE, ids |-> l, pairs |-> {}]
Pairs(uv) == [all |-> FALSE, tuple |-> TRUE, ids |-> EmptyMap, pairs |-> uv]
\* a list [u, v] of two lists of ids
ListOfLists(u, v) == [lists |-> <<u, v>>] @@ Ids(EmptyMap)

\* utils.toindex(data): the ids of a flat list; a list of lists is not an
\* index
ErrIndexData == "Index data must be 1D int64 vector"

toindex(data) ==
    IF "lists" \in DOMAIN data THEN Raise(ErrIndexData) ELSE Ok(data.ids)

is_all(x) == x.all
ToSet(l) == {l[i] : i \in DOMAIN l}

RECURSIVE ListOf(_)
ListOf(S) ==
    IF S = {} THEN EmptyMap
    ELSE LET m == CHOOSE x \in S : \A y \in S : y <= x
             l == ListOf(S \ {m})
         IN  [i \in 0..Size(l) |-> IF i = Size(l) THEN m ELSE l[i]]

IdsOf(S) == Ids(ListOf(S))

--------------------------------------------------------------------------
(***************************************************************************)
(* The world a call works on: the two heaps, the objects, the log of user  *)
(* functions invoked, and the DGLError raised ("" when none).              *)
(***************************************************************************)
World == [T |-> tensors, F |-> frames, O |-> objs, L |-> <<>>, E |-> ""]

Raised(W, e) == [W EXCEPT !.E = e]
Logged(W, entry) == [W EXCEPT !.L = Append(@, entry)]

(***************************************************************************)
(* Frame: field name -> column, a row count, per-field initializers and a  *)
(* default initializer.  An initializer is modelled by the value it fills  *)
(* rows with: 0 for init.zero_initializer, which is also the default.      *)
(***************************************************************************)
ZeroInitializer == 0

Frame(nrows) ==
    [cols |-> EmptyMap, inits |-> EmptyMap, dflt |-> ZeroInitializer, nrows |-> nrows]

\* Frame(fr._frame): a new Frame over the same columns
FrameOver(fr) ==
    [cols |-> fr.cols, inits |-> EmptyMap, dflt |-> ZeroInitializer, nrows |-> fr.nrows]

sync_frame_initializer(fr1, fr2) ==
    [fr1 EXCEPT !.inits = fr2.inits, !.dflt = fr2.dflt]

\* frame.set_initializer(initializer, field): field None sets the default
set_initializer(fr, initializer, field) ==
    IF field = "" THEN [fr EXCEPT !.dflt = initializer]
    ELSE [fr EXCEPT !.inits = (field :> initializer) @@ @]

get_initializer(fr, key) ==
    IF key \in DOMAIN fr.inits THEN fr.inits[key] ELSE fr.dflt

Keys(W, fid) == DOMAIN W.F[fid].cols
Col(W, fid, key) == W.T[W.F[fid].cols[key]]

\* dict(frame): field -> column values
FrameData(W, fid) == [k \in Keys(W, fid) |-> Col(W, fid, k)]

\* frame[key] = val: binds the field to a new tensor
SetColumn(W, fid, key, col) ==
    [W EXCEPT !.T = Append(@, col),
              !.F[fid].cols = (key :> (Len(W.T) + 1)) @@ @]

\* One field of update_rows: rows V of the column take valOf; a missing
\* column is first filled by the field's initializer; out of place the
\* field is bound to a new tensor, in place the bound tensor is written
WriteRows(W, fid, V, key, valOf, inplace) ==
    LET fr == W.F[fid]
        has == key \in DOMAIN fr.cols
        base == IF has THEN Col(W, fid, key)
                ELSE [r \in Rows(fr.nrows) |-> get_initializer(fr, key)]
        new == [r \in Rows(fr.nrows) |-> IF r \in V THEN valOf[r] ELSE base[r]]
    IN  IF inplace /\ has
        THEN [W EXCEPT !.T[fr.cols[key]] = new]
        ELSE SetColumn(W, fid, key, new)

RECURSIVE WriteDict(_, _, _, _, _, _)
WriteDict(W, fid, V, data, keys, inplace) ==
    IF keys = {} THEN W
    ELSE LET k == CHOOSE x \in keys : TRUE IN
         WriteDict(WriteRows(W, fid, V, k, data[k], inplace),
                   fid, V, data, keys \ {k}, inplace)

\* frame.update_rows(ids, data): data[key][i] goes to row ids[i]
update_rows(W, fid, ids, data, inplace) ==
    LET V == ToSet(ids)
        pos(r) == CHOOSE i \in DOMAIN ids :
                      ids[i] = r /\ \A j \in DOMAIN ids : ids[j] = r => j <= i
        byrow == [k \in DOMAIN data |-> [r \in V |-> data[k][pos(r)]]]
    IN  WriteDict(W, fid, V, byrow, DOMAIN data, inplace)

RECURSIVE SetColumns(_, _, _, _)
SetColumns(W, fid, data, keys) ==
    IF keys = {} THEN W
    ELSE LET k == CHOOSE x \in keys : TRUE IN
         SetColumns(SetColumn(W, fid, k, data[k]), fid, data, keys \ {k})

\* frame.pop(key)
PopColumn(W, fid, key) ==
    [W EXCEPT !.F[fid].cols = [k \in DOMAIN @ \ {key} |-> @[k]]]

--------------------------------------------------------------------------
(***************************************************************************)
(* DGLHeteroGraph objects.                                                 *)
(***************************************************************************)
MsgIndexNone == [none |-> TRUE, ix |-> EmptyMap]
MsgIndex(ix) == [none |-> FALSE, ix |-> ix]

\* __init__ with the frames given: the message indicators start as None,
\* the message frames empty with the zero initializer
HeteroGraphObject(g, nf, ef) ==
    [g |-> g, nf |-> nf, ef |-> ef,
     mi |-> [i \in DOMAIN g.etypes |-> MsgIndexNone],
     mf |-> [i \in DOMAIN g.etypes |-> EmptyMap]]

\* __init__ with node_frames = edge_frames = None: one empty frame per type
NewStore(W, g) ==
    LET nn == number_of_ntypes(g)
        ne == number_of_etypes(g)
        base == Len(W.F)
        nfr == [i \in 1..nn |-> Frame(number_of_nodes(g, i - 1))]
        efr == [i \in 1..ne |-> Frame(number_of_edges(g, i - 1))]
        obj == HeteroGraphObject(g, [i \in Rows(nn) |-> base + 1 + i],
                                 [i \in Rows(ne) |-> base + nn + 1 + i])
    IN  [W EXCEPT !.F = @ \o nfr \o efr, !.O = Append(@, obj)]

\* _get_msg_index without the test for None: the index is zeroed on every read
_get_msg_index_reset(W, o, etid) ==
    [W EXCEPT !.O[o].mi[etid] = MsgIndex([e \in AllEdges(W.O[o].g, etid) |-> 0])]

\* _get_msg_index: a None indicator becomes the all-zero index on first read
_get_msg_index(W, o, etid) ==
    IF W.O[o].mi[etid].none
    THEN [W EXCEPT !.O[o].mi[etid] =
              MsgIndex([e \in AllEdges(W.O[o].g, etid) |-> 0])]
    ELSE W

\* the edges of a relation that hold an unconsumed message
Pending(obj, etid) ==
    IF obj.mi[etid].none THEN {}
    ELSE {e \in DOMAIN obj.mi[etid].ix : obj.mi[etid].ix[e] # 0}

--------------------------------------------------------------------------
(***************************************************************************)
(* Feature accessors.                                                      *)
(***************************************************************************)
ErrShape == "number of features"

\* the rows a selection targets
NumTargets(u, n) == IF is_all(u) THEN n ELSE Size(u.ids)

\* a set that tests and writes one field after the other
RECURSIVE SetFieldByField(_, _, _, _, _, _, _)
SetFieldByField(W, fid, u, num, data, keys, inplace) ==
    IF keys = {} THEN W
    ELSE LET k == CHOOSE x \in keys : TRUE IN
         IF Size(data[k]) # num THEN Raised(W, ErrShape)
         ELSE SetFieldByField(IF is_all(u) THEN SetColumn(W, fid, k, data[k])
                              ELSE update_rows(W, fid, u.ids, (k :> data[k]), inplace),
                              fid, u, num, data, keys \ {k}, inplace)

_set_n_repr_field_by_field(W, o, ntid, u, data, inplace) ==
    SetFieldByField(W, W.O[o].nf[ntid], u,
                    NumTargets(u, number_of_nodes(W.O[o].g, ntid)), data, DOMAIN data,
                    inplace)

\* _set_n_repr without the comparison of the lengths with the number of nodes
_set_n_repr_unchecked(W, o, ntid, u, data, inplace) ==
    IF is_all(u) THEN SetColumns(W, W.O[o].nf[ntid], data, DOMAIN data)
    ELSE update_rows(W, W.O[o].nf[ntid], u.ids, data, inplace)

_set_n_repr(W, o, ntid, u, data, inplace) ==
    LET fid == W.O[o].nf[ntid]
        num_nodes == NumTargets(u, number_of_nodes(W.O[o].g, ntid))
    IN  IF \E key \in DOMAIN data : Size(data[key]) # num_nodes
        THEN Raised(W, ErrShape)
        ELSE IF is_all(u) THEN SetColumns(W, fid, data, DOMAIN data)
        ELSE update_rows(W, fid, u.ids, data, inplace)

_set_e_repr(W, o, etid, eid, data, inplace) ==
    LET fid == W.O[o].ef[etid]
        num_edges == NumTargets(eid, number_of_edges(W.O[o].g, etid))
    IN  IF \E key \in DOMAIN data : Size(data[key]) # num_edges
        THEN Raised(W, ErrShape)
        ELSE IF is_all(eid) THEN SetColumns(W, fid, data, DOMAIN data)
        ELSE update_rows(W, fid, eid.ids, data, inplace)

\* Frame.pop(key) returns the column stored under key
FramePopValue(W, fid, key) == [none |-> FALSE, val |-> Col(W, fid, key)]

\* a method that ends without a return statement returns None
ReturnsNone == [none |-> TRUE, val |-> EmptyMap]

\* what _pop_n_repr and _pop_e_repr return
_pop_n_repr_return(W, o, ntid, key) == FramePopValue(W, W.O[o].nf[ntid], key)

_pop_e_repr_return(W, o, etid, key) == ReturnsNone

_pop_n_repr(W, o, ntid, key) == PopColumn(W, W.O[o].nf[ntid], key)

_pop_e_repr(W, o, etid, key) == PopColumn(W, W.O[o].ef[etid], key)

set_n_initializer(W, o, initializer, field, ntype) ==
    LET ntid == get_ntype_id(W.O[o].g, ntype) IN
    IF ~ntid.ok THEN Raised(W, ntid.err)
    ELSE [W EXCEPT !.F[W.O[o].nf[ntid.val]] = set_initializer(@, initializer, field)]

--------------------------------------------------------------------------
(***************************************************************************)
(* User-defined functions.  A message function copies a source-node or an  *)
(* edge field, scaled by k, into the message field "m"; a reduce function  *)
(* aggregates the mailbox field "m" by sum or max, optionally adds a field *)
(* of the node, and writes field out; an apply function writes             *)
(* out = k * data[fld] (+ data[add]).  NoFn is the argument None.          *)
(***************************************************************************)
MsgFn(from, fld, k) == [from |-> from, fld |-> fld, k |-> k]
ReduceFn(agg, plus, out) == [agg |-> agg, plus |-> plus, out |-> out]
ApplyFn(fld, k, add, out) == [none |-> FALSE, fld |-> fld, k |-> k, add |-> add, out |-> out]
NoFn == [none |-> TRUE, fld |-> "", k |-> 0, add |-> "", out |-> ""]

\* the tests' UDFs
copy_src_h == MsgFn("src", "h", 1)          \* {'m' : edges.src['h']}
copy_src_h3 == MsgFn("src", "h", 3)         \* {'m' : edges.src['h'] * 3}
reduce_add_h == ReduceFn("sum", "h", "h")   \* {'h' : nodes.data['h'] + sum(mailbox['m'])}
reduce_sum_h == ReduceFn("sum", "", "h")    \* fn.sum('m', 'h')
reduce_max_h == ReduceFn("max", "", "h")    \* {'h' : max(mailbox['m'])}
reduce_accum == ReduceFn("sum", "", "accum") \* {'accum' : sum(mailbox['m'])}
apply_double == ApplyFn("h", 2, "", "h")    \* {'h' : nodes.data['h'] * 2}
apply_accum == ApplyFn("h", 1, "accum", "h") \* {'h' : nodes.data['h'] + nodes.data['accum']}

LogEntry(fn, ids, deg) == [fn |-> fn, ids |-> ids, deg |-> deg]

\* the fields a UDF reads from the frame it is given
MsgReads(mfn) == {mfn.fld}
ReduceReads(rf) == IF rf.plus = "" THEN {} ELSE {rf.plus}
ApplyReads(af) == IF af.none THEN {} ELSE {af.fld} \cup (IF af.add = "" THEN {} ELSE {af.add})

MsgValue(W, o, stid, etid, mfn, e) ==
    LET obj == W.O[o] IN
    mfn.k * (IF mfn.from = "src"
             THEN Col(W, obj.nf[stid], mfn.fld)[EdgeSrc(obj.g, etid, e)]
             ELSE Col(W, obj.ef[etid], mfn.fld)[e])

ApplyValue(af, row) ==
    af.k * row[af.fld] + (IF af.add = "" THEN 0 ELSE row[af.add])

--------------------------------------------------------------------------
(***************************************************************************)
(* Scheduler / runtime: the programs the calls compile to.                 *)
(***************************************************************************)

\* schedule_apply_nodes: func over the rows V of a node frame, written back;
\* nothing happens for func None or an empty selection
schedule_apply_nodes(W, fid, V, af, inplace) ==
    IF af.none \/ V = {} THEN W
    ELSE LET data == FrameData(W, fid)
             out == [v \in V |-> ApplyValue(af, [k \in DOMAIN data |-> data[k][v]])]
         IN  WriteRows(Logged(W, LogEntry("apply", V, 0)), fid, V, af.out, out, inplace)

\* schedule_apply_edges, for an edge UDF over the edge's own data
schedule_apply_edges(W, fid, E, af, inplace) ==
    IF af.none \/ E = {} THEN W
    ELSE LET data == FrameData(W, fid)
             out == [e \in E |-> ApplyValue(af, [k \in DOMAIN data |-> data[k][e]])]
         IN  WriteRows(Logged(W, LogEntry("apply_edges", E, 0)), fid, E, af.out, out, inplace)

\* the number of messages of edge set E that node v receives
MsgDegree(g, etid, E, v) == Cardinality({e \in E : EdgeDst(g, etid, e) = v})

\* degree bucketing: reduce is invoked once per message count, in ascending
\* order, on the nodes of V with that count; a count of zero has no bucket
RECURSIVE LogBuckets(_, _, _, _, _)
LogBuckets(W, g, etid, E, V) ==
    LET nz == {v \in V : MsgDegree(g, etid, E, v) > 0} IN
    IF nz = {} THEN W
    ELSE LET d == CHOOSE x \in {MsgDegree(g, etid, E, v) : v \in nz} :
                      \A v \in nz : x <= MsgDegree(g, etid, E, v)
             bkt == {v \in nz : MsgDegree(g, etid, E, v) = d}
         IN  LogBuckets(Logged(W, LogEntry("reduce", bkt, d)), g, etid, E, V \ bkt)

\* the row the field of a node with no message is given: the field's initializer
ZeroDegreeValue(fr, key) == get_initializer(fr, key)

\* reduce over the messages msg[e], e in E, for the nodes V of the
\* destination frame: the reduced features, field -> [v -> value]
ReducedFeat(W, o, dtid, etid, V, E, msg, rf) ==
    LET obj == W.O[o]
        fid == obj.nf[dtid]
        box(v) == {e \in E : EdgeDst(obj.g, etid, e) = v}
        agg(v) == IF rf.agg = "sum" THEN SumOver(box(v), msg) ELSE MaxOver(box(v), msg)
        plus(v) == IF rf.plus = "" THEN 0 ELSE Col(W, fid, rf.plus)[v]
    IN  (rf.out :> [v \in V |-> IF box(v) = {}
                                THEN ZeroDegreeValue(W.F[fid], rf.out)
                                ELSE agg(v) + plus(v)])

\* _apply_with_accum: the apply function sees the node rows updated with
\* the reduced features; its output is merged over the reduced features
ApplyWithAccum(W, fid, V, red, af) ==
    IF af.none THEN red
    ELSE LET data == FrameData(W, fid)
             row(v) == [k \in DOMAIN data \cup DOMAIN red |->
                           IF k \in DOMAIN red THEN red[k][v] ELSE data[k][v]]
         IN  (af.out :> [v \in V |-> ApplyValue(af, row(v))]) @@ red

\* reduce, apply and write-back shared by recv and the fused programs
ReduceApplyWrite(W, o, dtid, etid, V, E, msg, rf, af, inplace) ==
    LET fid == W.O[o].nf[dtid]
        W1 == LogBuckets(W, W.O[o].g, etid, E, V)
        red == ReducedFeat(W, o, dtid, etid, V, E, msg, rf)
        W2 == IF af.none THEN W1 ELSE Logged(W1, LogEntry("apply", V, 0))
        final == ApplyWithAccum(W, fid, V, red, af)
    IN  WriteDict(W2, fid, V, final, DOMAIN final, inplace)

\* schedule_send: the messages of edges E go to the message frame (rows
\* never written read as zero) and E is marked in the indicator
schedule_send(W, o, stid, dtid, etid, E, mfn) ==
    LET W0 == _get_msg_index(W, o, etid)
        obj == W0.O[o]
        old == IF "m" \in DOMAIN obj.mf[etid] THEN obj.mf[etid]["m"]
               ELSE [e \in AllEdges(obj.g, etid) |-> ZeroInitializer]
        new == [e \in AllEdges(obj.g, etid) |->
                   IF e \in E THEN MsgValue(W, o, stid, etid, mfn, e) ELSE old[e]]
        ix == [e \in AllEdges(obj.g, etid) |-> IF e \in E THEN 1 ELSE obj.mi[etid].ix[e]]
    IN  [Logged(W0, LogEntry("message", E, 0))
            EXCEPT !.O[o].mf[etid] = ("m" :> new) @@ @,
                   !.O[o].mi[etid] = MsgIndex(ix)]

\* schedule_recv: the pending in-edges of V are reduced at V; with none
\* pending the call downgrades to apply_nodes; the received edges are
\* unmarked, and the message frame is cleared once nothing is pending
schedule_recv(W, o, stid, dtid, etid, V, rf, af, inplace) ==
    LET g == W.O[o].g
        W0 == IF in_edges(g, etid, V) = {} THEN W ELSE _get_msg_index(W, o, etid)
        E == in_edges(g, etid, V) \cap Pending(W0.O[o], etid)
    IN  IF E = {}
        THEN schedule_apply_nodes(W0, W0.O[o].nf[dtid], V, af, inplace)
        ELSE LET W1 == ReduceApplyWrite(W0, o, dtid, etid, V, E,
                                        W0.O[o].mf[etid]["m"], rf, af, inplace)
                 ix == [e \in AllEdges(g, etid) |->
                           IF e \in E THEN 0 ELSE W0.O[o].mi[etid].ix[e]]
             IN  [W1 EXCEPT !.O[o].mi[etid] = MsgIndex(ix),
                            !.O[o].mf[etid] =
                                IF \E e \in DOMAIN ix : ix[e] # 0 THEN @ ELSE EmptyMap]

\* schedule_snr: send on the edges E, then recv at their destinations
schedule_snr(W, o, stid, dtid, etid, E, mfn, rf, af, inplace) ==
    schedule_recv(schedule_send(W, o, stid, dtid, etid, E, mfn),
                  o, stid, dtid, etid, DstNodes(W.O[o].g, etid, E), rf, af, inplace)

\* schedule_pull: send_and_recv over the in-edges of V, received at V; with
\* no in-edge the call downgrades to apply_nodes
schedule_pull(W, o, stid, dtid, etid, V, mfn, rf, af, inplace) ==
    LET E == in_edges(W.O[o].g, etid, V) IN
    IF E = {} THEN schedule_apply_nodes(W, W.O[o].nf[dtid], V, af, inplace)
    ELSE schedule_recv(schedule_send(W, o, stid, dtid, etid, E, mfn),
                       o, stid, dtid, etid, V, rf, af, inplace)

\* schedule_push: send_and_recv over the out-edges of U; nothing with no out-edge
schedule_push(W, o, stid, dtid, etid, U, mfn, rf, af, inplace) ==
    LET E == out_edges(W.O[o].g, etid, U) IN
    IF E = {} THEN W
    ELSE schedule_snr(W, o, stid, dtid, etid, E, mfn, rf, af, inplace)

\* schedule_update_all: every edge is sent on and every destination node
\* receives; a relation with no edge downgrades to apply_nodes
schedule_update_all(W, o, stid, dtid, etid, mfn, rf, af) ==
    LET g == W.O[o].g IN
    IF number_of_edges(g, etid) = 0
    THEN schedule_apply_nodes(W, W.O[o].nf[dtid], AllNodes(g, dtid), af, FALSE)
    ELSE schedule_recv(schedule_send(W, o, stid, dtid, etid, AllEdges(g, etid), mfn),
                       o, stid, dtid, etid, AllNodes(g, dtid), rf, af, FALSE)

--------------------------------------------------------------------------
(***************************************************************************)
(* The message-passing calls of DGLHeteroGraph.                            *)
(***************************************************************************)
\* the edge ids a call's edges argument selects
EdgeSelection(g, etid, edges) ==
    IF is_all(edges) THEN AllEdges(g, etid)
    ELSE IF edges.tuple THEN edge_ids(g, etid, edges.pairs)
    ELSE ToSet(edges.ids)

\* the node ids a call's node argument selects
NodeSelection(g, ntid, v) ==
    IF is_all(v) THEN AllNodes(g, ntid) ELSE ToSet(v.ids)

apply_nodes(W, o, func, v, ntype, inplace) ==
    LET g == W.O[o].g
        ntid == get_ntype_id(g, ntype)
    IN  IF ~ntid.ok THEN Raised(W, ntid.err)
        ELSE schedule_apply_nodes(W, W.O[o].nf[ntid.val],
                                  NodeSelection(g, ntid.val, v), func, inplace)

apply_edges(W, o, func, edges, etype, inplace) ==
    LET g == W.O[o].g
        etid == get_etype_id(g, etype)
    IN  IF ~etid.ok THEN Raised(W, etid.err)
        ELSE schedule_apply_edges(W, W.O[o].ef[etid.val],
                                  EdgeSelection(g, etid.val, edges), func, inplace)

\* send without the early return on an empty selection
send_without_empty_check(W, o, edges, message_func, etype) ==
    LET g == W.O[o].g
        etid == get_etype_id(g, etype)
    IN  IF ~etid.ok THEN Raised(W, etid.err)
        ELSE schedule_send(W, o, find_edge(g, etid.val)[1], find_edge(g, etid.val)[2],
                           etid.val, EdgeSelection(g, etid.val, edges), message_func)

send(W, o, edges, message_func, etype) ==
    LET g == W.O[o].g
        etid == get_etype_id(g, etype)
    IN  IF ~etid.ok THEN Raised(W, etid.err)
        ELSE LET stid == find_edge(g, etid.val)[1]
                 dtid == find_edge(g, etid.val)[2]
                 eid == EdgeSelection(g, etid.val, edges)
             IN  IF eid = {} THEN W
                 ELSE schedule_send(W, o, stid, dtid, etid.val, eid, message_func)

\* recv that leaves no message pending on the relation
recv_clears_messages(W, o, v, reduce_func, apply_node_func, etype, inplace) ==
    LET g == W.O[o].g
        etid == get_etype_id(g, etype)
    IN  IF ~etid.ok THEN Raised(W, etid.err)
        ELSE LET stid == find_edge(g, etid.val)[1]
                 dtid == find_edge(g, etid.val)[2]
                 V == NodeSelection(g, dtid, v)
             IN  IF V = {} THEN W
                 ELSE [schedule_recv(W, o, stid, dtid, etid.val, V,
                                     reduce_func, apply_node_func, inplace)
                          EXCEPT !.O[o].mi[etid.val] =
                                     MsgIndex([e \in AllEdges(g, etid.val) |-> 0]),
                                 !.O[o].mf[etid.val] = EmptyMap]

\* recv that takes every node of the destination type, whatever the selection
recv_on_all_nodes(W, o, v, reduce_func, apply_node_func, etype, inplace) ==
    LET g == W.O[o].g
        etid == get_etype_id(g, etype)
    IN  IF ~etid.ok THEN Raised(W, etid.err)
        ELSE LET stid == find_edge(g, etid.val)[1]
                 dtid == find_edge(g, etid.val)[2]
             IN  schedule_recv(W, o, stid, dtid, etid.val, AllNodes(g, dtid),
                               reduce_func, apply_node_func, inplace)

\* recv that does not hand apply_node_func on to the scheduler
recv_without_apply(W, o, v, reduce_func, apply_node_func, etype, inplace) ==
    LET g == W.O[o].g
        etid == get_etype_id(g, etype)
    IN  IF ~etid.ok THEN Raised(W, etid.err)
        ELSE LET stid == find_edge(g, etid.val)[1]
                 dtid == find_edge(g, etid.val)[2]
                 V == NodeSelection(g, dtid, v)
             IN  IF V = {} THEN W
                 ELSE schedule_recv(W, o, stid, dtid, etid.val, V,
                                    reduce_func, NoFn, inplace)

recv(W, o, v, reduce_func, apply_node_func, etype, inplace) ==
    LET g == W.O[o].g
        etid == get_etype_id(g, etype)
    IN  IF ~etid.ok THEN Raised(W, etid.err)
        ELSE LET stid == find_edge(g, etid.val)[1]
                 dtid == find_edge(g, etid.val)[2]
                 V == NodeSelection(g, dtid, v)
             IN  IF V = {} THEN W
                 ELSE schedule_recv(W, o, stid, dtid, etid.val, V,
                                    reduce_func, apply_node_func, inplace)

\* send_and_recv that unpacks a list [u, v] as it does the tuple (u, v)
send_and_recv_unpacks_list(W, o, edges, message_func, reduce_func, apply_node_func, etype, inplace) ==
    LET g == W.O[o].g
        etid == get_etype_id(g, etype)
    IN  IF ~etid.ok THEN Raised(W, etid.err)
        ELSE LET stid == find_edge(g, etid.val)[1]
                 dtid == find_edge(g, etid.val)[2]
                 eid == IF "lists" \in DOMAIN edges
                        THEN edge_ids(g, etid.val,
                                      {<<edges.lists[1][i], edges.lists[2][i]>> :
                                          i \in DOMAIN edges.lists[1]})
                        ELSE EdgeSelection(g, etid.val, edges)
             IN  IF eid = {} THEN W
                 ELSE schedule_snr(W, o, stid, dtid, etid.val, eid, message_func,
                                   reduce_func, apply_node_func, inplace)

\* send_and_recv: a tuple is unpacked into u and v, anything else goes
\* through utils.toindex as a list of edge ids
send_and_recv(W, o, edges, message_func, reduce_func, apply_node_func, etype, inplace) ==
    LET g == W.O[o].g
        etid == get_etype_id(g, etype)
    IN  IF ~etid.ok THEN Raised(W, etid.err)
        ELSE IF ~edges.tuple /\ ~toindex(edges).ok THEN Raised(W, toindex(edges).err)
        ELSE LET stid == find_edge(g, etid.val)[1]
                 dtid == find_edge(g, etid.val)[2]
                 eid == EdgeSelection(g, etid.val, edges)
             IN  IF eid = {} THEN W
                 ELSE schedule_snr(W, o, stid, dtid, etid.val, eid, message_func,
                                   reduce_func, apply_node_func, inplace)

\* pull that does not hand apply_node_func on to the scheduler
pull_without_apply(W, o, v, message_func, reduce_func, apply_node_func, etype, inplace) ==
    LET g == W.O[o].g
        etid == get_etype_id(g, etype)
    IN  IF ~etid.ok THEN Raised(W, etid.err)
        ELSE LET stid == find_edge(g, etid.val)[1]
                 dtid == find_edge(g, etid.val)[2]
                 V == ToSet(v.ids)
             IN  IF V = {} THEN W
                 ELSE schedule_pull(W, o, stid, dtid, etid.val, V, message_func,
                                    reduce_func, NoFn, inplace)

\* pull that hands the nodes to schedule_push
pull_calls_push(W, o, v, message_func, reduce_func, apply_node_func, etype, inplace) ==
    LET g == W.O[o].g
        etid == get_etype_id(g, etype)
    IN  IF ~etid.ok THEN Raised(W, etid.err)
        ELSE LET stid == find_edge(g, etid.val)[1]
                 dtid == find_edge(g, etid.val)[2]
                 V == ToSet(v.ids)
             IN  IF V = {} THEN W
                 ELSE schedule_push(W, o, stid, dtid, etid.val, V, message_func,
                                    reduce_func, apply_node_func, inplace)

pull(W, o, v, message_func, reduce_func, apply_node_func, etype, inplace) ==
    LET g == W.O[o].g
        etid == get_etype_id(g, etype)
    IN  IF ~etid.ok THEN Raised(W, etid.err)
        ELSE LET stid == find_edge(g, etid.val)[1]
                 dtid == find_edge(g, etid.val)[2]
                 V == ToSet(v.ids)
             IN  IF V = {} THEN W
                 ELSE schedule_pull(W, o, stid, dtid, etid.val, V, message_func,
                                    reduce_func, apply_node_func, inplace)

push(W, o, u, message_func, reduce_func, apply_node_func, etype, inplace) ==
    LET g == W.O[o].g
        etid == get_etype_id(g, etype)
    IN  IF ~etid.ok THEN Raised(W, etid.err)
        ELSE LET stid == find_edge(g, etid.val)[1]
                 dtid == find_edge(g, etid.val)[2]
                 U == ToSet(u.ids)
             IN  IF U = {} THEN W
                 ELSE schedule_push(W, o, stid, dtid, etid.val, U, message_func,
                                    reduce_func, apply_node_func, inplace)

\* update_all with the early return of send on a relation with no edge
update_all_with_empty_check(W, o, message_func, reduce_func, apply_node_func, etype) ==
    LET g == W.O[o].g
        etid == get_etype_id(g, etype)
    IN  IF ~etid.ok THEN Raised(W, etid.err)
        ELSE IF number_of_edges(g, etid.val) = 0 THEN W
        ELSE schedule_update_all(W, o, find_edge(g, etid.val)[1], find_edge(g, etid.val)[2],
                                 etid.val, message_func, reduce_func, apply_node_func)

\* update_all that reaches the first node of the destination type only
update_all_first_node(W, o, message_func, reduce_func, apply_node_func, etype) ==
    LET g == W.O[o].g
        etid == get_etype_id(g, etype)
    IN  IF ~etid.ok THEN Raised(W, etid.err)
        ELSE schedule_pull(W, o, find_edge(g, etid.val)[1], find_edge(g, etid.val)[2],
                           etid.val, {0}, message_func, reduce_func, apply_node_func, FALSE)

\* update_all that does not hand apply_node_func on to the scheduler
update_all_without_apply(W, o, message_func, reduce_func, apply_node_func, etype) ==
    LET g == W.O[o].g
        etid == get_etype_id(g, etype)
    IN  IF ~etid.ok THEN Raised(W, etid.err)
        ELSE schedule_update_all(W, o, find_edge(g, etid.val)[1], find_edge(g, etid.val)[2],
                                 etid.val, message_func, reduce_func, NoFn)

update_all(W, o, message_func, reduce_func, apply_node_func, etype) ==
    LET g == W.O[o].g
        etid == get_etype_id(g, etype)
    IN  IF ~etid.ok THEN Raised(W, etid.err)
        ELSE LET stid == find_edge(g, etid.val)[1]
                 dtid == find_edge(g, etid.val)[2]
             IN  schedule_update_all(W, o, stid, dtid, etid.val, message_func,
                                     reduce_func, apply_node_func)

--------------------------------------------------------------------------
(***************************************************************************)
(* Message passing over several relations: multi_recv and the like.  The  *)
(* dictionary of the call is a list of entries in insertion order.         *)
(***************************************************************************)
ErrCannotInfer == "Cannot infer destination node type"
ErrInvalidCrossReducer == "Invalid cross type reducer"
ErrIndex == "list index out of range"

\* one item of etype_dict / reducer_dict: the key and its tuple of arguments
DictEntry(etype, edges, mfn, rf, af) ==
    [etype |-> etype, edges |-> edges, mfn |-> mfn, rf |-> rf, af |-> af]

\* infer_ntype_from_dict without the comparison: the first key decides
RECURSIVE infer_ntype_from_first_key(_, _, _, _)
infer_ntype_from_first_key(g, etype_dict, i, ntype) ==
    IF i > Len(etype_dict) THEN Ok(ntype)
    ELSE LET c == to_canonical_etype(g, etype_dict[i].etype) IN
         IF ~c.ok THEN c
         ELSE infer_ntype_from_first_key(g, etype_dict, i + 1,
                  IF ntype.kind = "none" THEN StrArg(c.val[3]) ELSE ntype)

\* infer_ntype_from_dict, from the i-th key on, with ntype found so far
RECURSIVE infer_ntype_from_dict(_, _, _, _)
infer_ntype_from_dict(g, etype_dict, i, ntype) ==
    IF i > Len(etype_dict) THEN Ok(ntype)
    ELSE LET c == to_canonical_etype(g, etype_dict[i].etype) IN
         IF ~c.ok THEN c
         ELSE LET dty == StrArg(c.val[3])
                  nt == IF ntype.kind = "none" THEN dty ELSE ntype
              IN  IF nt # dty THEN Raise(ErrCannotInfer)
                  ELSE infer_ntype_from_dict(g, etype_dict, i + 1, nt)

\* a column of an output frame: the rows V hold vals, every other row what
\* the initializer of the field gives
OutColumn(fr, key, V, vals) ==
    [r \in Rows(fr.nrows) |-> IF r \in V THEN vals[r] ELSE get_initializer(fr, key)]

OutFrame(fr, V, feat) == [k \in DOMAIN feat |-> OutColumn(fr, k, V, feat[k])]

\* schedule_apply_nodes(..., outframe): the rows func gives go to outframe
schedule_apply_nodes_out(W, fid, V, af) ==
    IF af.none \/ V = {} THEN [W |-> W, out |-> EmptyMap]
    ELSE LET data == FrameData(W, fid)
             feat == (af.out :> [v \in V |->
                          ApplyValue(af, [k \in DOMAIN data |-> data[k][v]])])
         IN  [W |-> Logged(W, LogEntry("apply", V, 0)), out |-> OutFrame(W.F[fid], V, feat)]

\* schedule_recv(..., outframe): as schedule_recv, but the node frame is
\* only read and the new rows go to outframe
schedule_recv_out(W, o, stid, dtid, etid, V, rf, af) ==
    LET g == W.O[o].g
        fid == W.O[o].nf[dtid]
        W0 == IF in_edges(g, etid, V) = {} THEN W ELSE _get_msg_index(W, o, etid)
        E == in_edges(g, etid, V) \cap Pending(W0.O[o], etid)
    IN  IF E = {} THEN schedule_apply_nodes_out(W0, fid, V, af)
        ELSE LET W1 == LogBuckets(W0, g, etid, E, V)
                 red == ReducedFeat(W0, o, dtid, etid, V, E, W0.O[o].mf[etid]["m"], rf)
                 W2 == IF af.none THEN W1 ELSE Logged(W1, LogEntry("apply", V, 0))
                 final == ApplyWithAccum(W0, fid, V, red, af)
                 ix == [e \in AllEdges(g, etid) |->
                           IF e \in E THEN 0 ELSE W0.O[o].mi[etid].ix[e]]
             IN  [W |-> [W2 EXCEPT !.O[o].mi[etid] = MsgIndex(ix),
                                   !.O[o].mf[etid] =
                                       IF \E e \in DOMAIN ix : ix[e] # 0 THEN @ ELSE EmptyMap],
                  out |-> OutFrame(W0.F[fid], V, final)]

schedule_snr_out(W, o, stid, dtid, etid, E, mfn, rf, af) ==
    schedule_recv_out(schedule_send(W, o, stid, dtid, etid, E, mfn),
                      o, stid, dtid, etid, DstNodes(W.O[o].g, etid, E), rf, af)

schedule_pull_out(W, o, stid, dtid, etid, V, mfn, rf, af) ==
    LET E == in_edges(W.O[o].g, etid, V) IN
    IF E = {} THEN schedule_apply_nodes_out(W, W.O[o].nf[dtid], V, af)
    ELSE schedule_recv_out(schedule_send(W, o, stid, dtid, etid, E, mfn),
                           o, stid, dtid, etid, V, rf, af)

schedule_update_all_out(W, o, stid, dtid, etid, mfn, rf, af) ==
    LET g == W.O[o].g IN
    IF number_of_edges(g, etid) = 0
    THEN schedule_apply_nodes_out(W, W.O[o].nf[dtid], AllNodes(g, dtid), af)
    ELSE schedule_recv_out(schedule_send(W, o, stid, dtid, etid, AllEdges(g, etid), mfn),
                           o, stid, dtid, etid, AllNodes(g, dtid), rf, af)

\* the cross-type reducers of the backend: F.sum, F.max, F.min, F.mean
\* (of whole numbers: the quotient) of the stacked rows xs, and the stack
\* of the rows, each unsqueezed at axis 1 and then stacked at axis 1
CrossReducers == {"sum", "max", "min", "mean", "stack"}

merger(reducer, xs) ==
    CASE reducer = "stack" -> [i \in DOMAIN xs |-> <<xs[i]>>]
      [] reducer = "sum" -> SumOver(DOMAIN xs, xs)
      [] reducer = "max" -> MaxOver(DOMAIN xs, xs)
      [] reducer = "min" -> 0 - MaxOver(DOMAIN xs, [i \in DOMAIN xs |-> 0 - xs[i]])
      [] reducer = "mean" -> SumOver(DOMAIN xs, xs) \div Len(xs)

\* merge_frames that looks up the reducer before it counts the frames
merge_frames_reducer_first(frms, reducer) ==
    IF reducer \notin CrossReducers THEN Raise(ErrInvalidCrossReducer)
    ELSE IF Len(frms) = 1 THEN Ok(frms[1])
    ELSE IF Len(frms) = 0 THEN Raise(ErrIndex)
    ELSE LET keys == UNION {DOMAIN frms[i] : i \in DOMAIN frms}
             flist(k) == SelectSeq(frms, LAMBDA f : k \in DOMAIN f)
             merged(k) ==
                 [r \in DOMAIN flist(k)[1][k] |->
                     merger(reducer, [i \in DOMAIN flist(k) |-> flist(k)[i][k][r]])]
         IN  Ok([k \in keys |-> IF Len(flist(k)) > 1 THEN merged(k) ELSE flist(k)[1][k]])

\* merge_frames in which a field of several frames takes the last frame's column
merge_frames_last_wins(frms, reducer) ==
    IF Len(frms) = 1 THEN Ok(frms[1])
    ELSE IF reducer \notin CrossReducers THEN Raise(ErrInvalidCrossReducer)
    ELSE IF Len(frms) = 0 THEN Raise(ErrIndex)
    ELSE LET keys == UNION {DOMAIN frms[i] : i \in DOMAIN frms}
             flist(k) == SelectSeq(frms, LAMBDA f : k \in DOMAIN f)
         IN  Ok([k \in keys |-> flist(k)[Len(flist(k))][k]])

\* merge_frames: one frame is returned as it is; a field of several frames
\* is merged row by row, a field of one frame passes through
merge_frames(frms, reducer) ==
    IF Len(frms) = 1 THEN Ok(frms[1])
    ELSE IF reducer \notin CrossReducers THEN Raise(ErrInvalidCrossReducer)
    ELSE IF Len(frms) = 0 THEN Raise(ErrIndex)
    ELSE LET keys == UNION {DOMAIN frms[i] : i \in DOMAIN frms}
             flist(k) == SelectSeq(frms, LAMBDA f : k \in DOMAIN f)
             merged(k) ==
                 [r \in DOMAIN flist(k)[1][k] |->
                     merger(reducer, [i \in DOMAIN flist(k) |-> flist(k)[i][k][r]])]
         IN  Ok([k \in keys |-> IF Len(flist(k)) > 1 THEN merged(k) ELSE flist(k)[1][k]])

\* the loop over the dictionary, from the i-th item on: the programs of the
\* items run one after the other on W; outs collects, per item that ran, the
\* destination type and the output frame, vs the destination nodes
RECURSIVE RunEntries(_, _, _, _, _, _, _)
RunEntries(kind, R, o, ntid, V, etype_dict, i) ==
    IF i > Len(etype_dict) \/ R.err # "" THEN R
    ELSE LET g == R.W.O[o].g
             entry == etype_dict[i]
             etid == get_etype_id(g, entry.etype)
         IN  IF ~etid.ok THEN [R EXCEPT !.err = etid.err]
             ELSE LET stid == find_edge(g, etid.val)[1]
                      dtid == IF kind \in {"multi_recv", "multi_update_all"}
                              THEN find_edge(g, etid.val)[2] ELSE ntid
                      E == EdgeSelection(g, etid.val, entry.edges)
                      skip == kind = "multi_send_and_recv" /\ E = {}
                      r == CASE kind = "multi_recv" ->
                                    schedule_recv_out(R.W, o, stid, dtid, etid.val, V,
                                                      entry.rf, entry.af)
                             [] kind = "multi_send_and_recv" ->
                                    schedule_snr_out(R.W, o, stid, dtid, etid.val, E,
                                                     entry.mfn, entry.rf, entry.af)
                             [] kind = "multi_pull" ->
                                    schedule_pull_out(R.W, o, stid, dtid, etid.val, V,
                                                      entry.mfn, entry.rf, entry.af)
                             [] kind = "multi_update_all" ->
                                    schedule_update_all_out(R.W, o, stid, dtid, etid.val,
                                                            entry.mfn, entry.rf, entry.af)
                      vs == IF kind = "multi_send_and_recv"
                            THEN R.vs \cup DstNodes(g, etid.val, E) ELSE R.vs
                  IN  RunEntries(kind,
                                 IF skip THEN [R EXCEPT !.vs = vs]
                                 ELSE [W |-> r.W, err |-> "", vs |-> vs,
                                       outs |-> Append(R.outs, [dtid |-> dtid, out |-> r.out])],
                                 o, ntid, V, etype_dict, i + 1)

NoRun(W) == [W |-> W, err |-> "", vs |-> {}, outs |-> <<>>]

\* the output frames collected for destination type dtid
OutsOf(R, dtid) ==
    LET sel == SelectSeq(R.outs, LAMBDA x : x.dtid = dtid)
    IN  [i \in DOMAIN sel |-> sel[i].out]

\* self._node_frames[dtid].update(merge_frames(all_out, cross_reducer)) and
\* the apply function on nodes v; W0 is the state when the call was made
MergeAndApply(W0, R, o, dtid, cross_reducer, apply_node_func, v, ntype, inplace) ==
    IF R.err # "" THEN Raised(W0, R.err)
    ELSE LET m == merge_frames(OutsOf(R, dtid), cross_reducer) IN
         IF ~m.ok THEN Raised(R.W, m.err)
         ELSE apply_nodes(SetColumns(R.W, R.W.O[o].nf[dtid], m.val, DOMAIN m.val),
                          o, apply_node_func, v, ntype, inplace)

multi_recv(W, o, v, reducer_dict, cross_reducer, apply_node_func, inplace) ==
    LET g == W.O[o].g
        ntype == infer_ntype_from_dict(g, reducer_dict, 1, NoneArg)
    IN  IF ~ntype.ok THEN Raised(W, ntype.err)
        ELSE LET ntid == get_ntype_id(g, ntype.val) IN
             IF ~ntid.ok THEN Raised(W, ntid.err)
             ELSE LET V == NodeSelection(g, ntid.val, v) IN
                  IF V = {} THEN W
                  ELSE MergeAndApply(W, RunEntries("multi_recv", NoRun(W), o, ntid.val, V,
                                                   reducer_dict, 1),
                                     o, ntid.val, cross_reducer, apply_node_func, v,
                                     ntype.val, inplace)

multi_send_and_recv(W, o, etype_dict, cross_reducer, apply_node_func, inplace) ==
    LET g == W.O[o].g
        ntype == infer_ntype_from_dict(g, etype_dict, 1, NoneArg)
    IN  IF ~ntype.ok THEN Raised(W, ntype.err)
        ELSE LET dtid == get_ntype_id(g, ntype.val) IN
             IF ~dtid.ok THEN Raised(W, dtid.err)
             ELSE LET R == RunEntries("multi_send_and_recv", NoRun(W), o, dtid.val, {},
                                      etype_dict, 1)
                  IN  MergeAndApply(W, R, o, dtid.val, cross_reducer, apply_node_func,
                                    IdsOf(R.vs), ntype.val, inplace)

\* multi_pull: the test for an empty list of nodes comes first
multi_pull(W, o, v, etype_dict, cross_reducer, apply_node_func, inplace) ==
    LET g == W.O[o].g
        V == ToSet(v.ids)
    IN  IF V = {} THEN W
        ELSE LET ntype == infer_ntype_from_dict(g, etype_dict, 1, NoneArg) IN
             IF ~ntype.ok THEN Raised(W, ntype.err)
             ELSE LET dtid == get_ntype_id(g, ntype.val) IN
                  IF ~dtid.ok THEN Raised(W, dtid.err)
                  ELSE MergeAndApply(W, RunEntries("multi_pull", NoRun(W), o, dtid.val, V,
                                                   etype_dict, 1),
                                     o, dtid.val, cross_reducer, apply_node_func, v,
                                     ntype.val, inplace)

\* the destination types of the output frames, in the order they first came
RECURSIVE DtidsOf(_, _)
DtidsOf(outs, seen) ==
    IF outs = <<>> THEN <<>>
    ELSE IF Head(outs).dtid \in seen THEN DtidsOf(Tail(outs), seen)
    ELSE <<Head(outs).dtid>> \o DtidsOf(Tail(outs), seen \cup {Head(outs).dtid})

\* multi_update_all, the loop over all_out.items(): merge and apply, one
\* destination type after the other
RECURSIVE MergeEach(_, _, _, _, _, _)
MergeEach(W, R, o, dtids, cross_reducer, apply_node_func) ==
    IF dtids = <<>> \/ W.E # "" THEN W
    ELSE MergeEach(MergeAndApply(W, [R EXCEPT !.W = W], o, Head(dtids), cross_reducer,
                                 apply_node_func, ALL,
                                 StrArg(W.O[o].g.ntypes[Head(dtids)]), FALSE),
                   R, o, Tail(dtids), cross_reducer, apply_node_func)

\* multi_update_all: the destination type is not inferred; the output
\* frames are grouped by the destination type of their relation
multi_update_all(W, o, etype_dict, cross_reducer, apply_node_func) ==
    LET R == RunEntries("multi_update_all", NoRun(W), o, 0, {}, etype_dict, 1) IN
    IF R.err # "" THEN Raised(W, R.err)
    ELSE MergeEach(R.W, R, o, DtidsOf(R.outs, {}), cross_reducer, apply_node_func)

(***************************************************************************)
(* Scoped views.                                                           *)
(***************************************************************************)
\* [FrameRef(Frame(fr._frame)) for fr in frames], initializers synced
LocalFrames(W, fids) ==
    [i \in 1..Size(fids) |->
        sync_frame_initializer(FrameOver(W.F[fids[i - 1]]), W.F[fids[i - 1]])]

\* local_var: a new object over new frames that share the columns; __init__
\* gives the new object its own empty message buffers
local_var(W, o) ==
    LET obj == W.O[o]
        nn == Size(obj.nf)
        base == Len(W.F)
        new == HeteroGraphObject(obj.g,
                                 [i \in DOMAIN obj.nf |-> base + 1 + i],
                                 [i \in DOMAIN obj.ef |-> base + nn + 1 + i])
    IN  [W EXCEPT !.F = @ \o LocalFrames(W, obj.nf) \o LocalFrames(W, obj.ef),
                  !.O = Append(@, new)]

\* local_scope that keeps working on the object's own frames
local_scope_enter_shared(W, o) == W

\* local_scope up to the yield: the object's frames are replaced by new
\* frames over the same columns (the old ones are kept by the generator)
local_scope_enter(W, o) ==
    LET obj == W.O[o]
        nn == Size(obj.nf)
        base == Len(W.F)
    IN  [W EXCEPT !.F = @ \o LocalFrames(W, obj.nf) \o LocalFrames(W, obj.ef),
                  !.O[o].nf = [i \in DOMAIN obj.nf |-> base + 1 + i],
                  !.O[o].ef = [i \in DOMAIN obj.ef |-> base + nn + 1 + i]]

\* local_scope that does not put the old frames back
local_scope_exit_keeps_frames(W, o, old_nframes, old_eframes) == W

\* local_scope that also puts back empty message buffers
local_scope_exit_drops_messages(W, o, old_nframes, old_eframes) ==
    [W EXCEPT !.O[o].nf = old_nframes, !.O[o].ef = old_eframes,
              !.O[o].mi = [i \in DOMAIN @ |-> MsgIndexNone],
              !.O[o].mf = [i \in DOMAIN @ |-> EmptyMap]]

\* local_scope after the yield: the old frames are put back
local_scope_exit(W, o, old_nframes, old_eframes) ==
    [W EXCEPT !.O[o].nf = old_nframes, !.O[o].ef = old_eframes]

--------------------------------------------------------------------------
(***************************************************************************)
(* Construction of the graphs the runs start from.                         *)
(***************************************************************************)
EmptyWorld == [T |-> <<>>, F |-> <<>>, O |-> <<>>, L |-> <<>>, E |-> ""]

\* g.nodes[nt].data['h'] = ... for the node types below n: row r of node
\* type t holds 10 * t + r + 1
RECURSIVE SetNodeData(_, _)
SetNodeData(W, n) ==
    IF n = 0 THEN W
    ELSE LET g == W.O[1].g
             col == [r \in AllNodes(g, n - 1) |-> 10 * (n - 1) + r + 1]
         IN  _set_n_repr(SetNodeData(W, n - 1), 1, n - 1, ALL, ("h" :> col), FALSE)

\* g.edges[et].data['w'] = ...: row e of edge type t holds 100 * (t + 1) + e
RECURSIVE SetEdgeData(_, _)
SetEdgeData(W, n) ==
    IF n = 0 THEN W
    ELSE LET g == W.O[1].g
             col == [e \in AllEdges(g, n - 1) |-> 100 * n + e]
         IN  _set_e_repr(SetEdgeData(W, n - 1), 1, n - 1, ALL, ("w" :> col), FALSE)

\* g.set_n_initializer(initializer, 'h') on every node frame
RECURSIVE SetInitializers(_, _, _)
SetInitializers(W, n, initializer) ==
    IF n = 0 THEN W
    ELSE LET prev == SetInitializers(W, n - 1, initializer) IN
         [prev EXCEPT !.F[prev.O[1].nf[n - 1]] = set_initializer(@, initializer, "h")]

\* the Store over graph g with features 'h' and 'w' and the initializer of 'h'
Store(g, initializer) ==
    SetInitializers(
        SetEdgeData(SetNodeData(NewStore(EmptyWorld, g), number_of_ntypes(g)),
                    number_of_etypes(g)),
        number_of_ntypes(g), initializer)

\* _init2 of the tests: fills rows with 2
Init2 == 2

--------------------------------------------------------------------------
(***************************************************************************)
(* The record of a call.                                                   *)
(***************************************************************************)
NoMsgFn == MsgFn("", "", 0)
NoReduceFn == ReduceFn("", "", "")

PendingAll(obj) == [i \in DOMAIN obj.mi |-> Pending(obj, i)]

Call(op, o, sel, etype, mfn, rf, af, inplace) ==
    [op |-> op, o |-> o, sel |-> sel, etype |-> etype, mfn |-> mfn, rf |-> rf,
     af |-> af, inplace |-> inplace, err |-> "", pend |-> PendingAll(objs[o]),
     ret |-> <<>>, data |-> <<>>]

NoCall == [op |-> "", o |-> 0, sel |-> ALL, etype |-> NoneArg, mfn |-> NoMsgFn,
           rf |-> NoReduceFn, af |-> NoFn, inplace |-> FALSE, err |-> "", pend |-> <<>>,
           ret |-> <<>>, data |-> <<>>]

last == IF history = <<>> THEN NoCall ELSE history[Len(history)]
steps == Len(history)

\* the state after a call that took World to W
Step(call, W) ==
    /\ tensors' = W.T
    /\ frames' = W.F
    /\ objs' = W.O
    /\ calls' = W.L
    /\ pre' = [T |-> tensors, F |-> frames, O |-> objs]
    /\ history' = Append(history, [call EXCEPT !.err = W.E])

InitWith(W) ==
    /\ tensors = W.T
    /\ frames = W.F
    /\ objs = W.O
    /\ scopes = [i \in DOMAIN W.O |-> <<>>]
    /\ calls = <<>>
    /\ pre = [T |-> W.T, F |-> W.F, O |-> W.O]
    /\ history = <<>>

\* what an open local_scope block holds: the frames put back on exit
\* (old_nframes, old_eframes); and, to state properties, the heaps as they
\* were on entry and whether an in-place write was made since
ScopeEntry(o) ==
    [old_nframes |-> objs[o].nf, old_eframes |-> objs[o].ef,
     T |-> tensors, F |-> frames, inplace |-> FALSE]

InplaceSeen(inplace) ==
    IF inplace
    THEN [o \in DOMAIN scopes |->
             [i \in DOMAIN scopes[o] |-> [scopes[o][i] EXCEPT !.inplace = TRUE]]]
    ELSE scopes

--------------------------------------------------------------------------
(***************************************************************************)
(* Arguments of the calls.                                                 *)
(***************************************************************************)
\* the edge type arguments that name a relation of g
EtypeArgs(g) ==
    IF number_of_etypes(g) = 1 THEN {NoneArg}
    ELSE {StrArg(g.etypes[i]) : i \in DOMAIN g.etypes}

Etid(g, etype) == get_etype_id(g, etype).val

\* edge selections: ALL, the empty list, one edge id, the endpoints of edge 0
EdgeArgs(g, etid) ==
    {ALL, Ids(EmptyMap)} \cup {IdsOf({e}) : e \in AllEdges(g, etid)}
        \cup {Pairs({<<EdgeSrc(g, etid, e), EdgeDst(g, etid, e)>>}) :
                 e \in AllEdges(g, etid) \cap {0}}

\* node selections as lists: the empty list, one node id, every node
NodeLists(g, ntid) ==
    {Ids(EmptyMap), IdsOf(AllNodes(g, ntid))} \cup {IdsOf({v}) : v \in AllNodes(g, ntid)}

MessageFns == {copy_src_h, copy_src_h3}
ReduceApply == {<<reduce_add_h, apply_double>>, <<reduce_max_h, NoFn>>}

--------------------------------------------------------------------------
(***************************************************************************)
(* Calls.                                                                  *)
(***************************************************************************)
Send(edges, mfn, etype) ==
    Step(Call("send", 1, edges, etype, mfn, NoReduceFn, NoFn, FALSE),
         send(World, 1, edges, mfn, etype))
    /\ UNCHANGED scopes

Recv(v, rf, af, etype) ==
    Step(Call("recv", 1, v, etype, NoMsgFn, rf, af, FALSE),
         recv(World, 1, v, rf, af, etype, FALSE))
    /\ UNCHANGED scopes

SendAndRecv(edges, mfn, rf, af, etype) ==
    Step(Call("send_and_recv", 1, edges, etype, mfn, rf, af, FALSE),
         send_and_recv(World, 1, edges, mfn, rf, af, etype, FALSE))
    /\ UNCHANGED scopes

Pull(v, mfn, rf, af, etype) ==
    Step(Call("pull", 1, v, etype, mfn, rf, af, FALSE),
         pull(World, 1, v, mfn, rf, af, etype, FALSE))
    /\ UNCHANGED scopes

Push(u, mfn, rf, af, etype) ==
    Step(Call("push", 1, u, etype, mfn, rf, af, FALSE),
         push(World, 1, u, mfn, rf, af, etype, FALSE))
    /\ UNCHANGED scopes

UpdateAll(mfn, rf, af, etype) ==
    Step(Call("update_all", 1, ALL, etype, mfn, rf, af, FALSE),
         update_all(World, 1, mfn, rf, af, etype))
    /\ UNCHANGED scopes

\* apply_nodes(func, v, ntype, inplace) on object o
ApplyNodes(o, v, af, ntype, inplace) ==
    Step(Call("apply_nodes", o, v, ntype, NoMsgFn, NoReduceFn, af, inplace),
         apply_nodes(World, o, af, v, ntype, inplace))
    /\ scopes' = InplaceSeen(inplace)

\* apply_edges(func, edges, etype, inplace) on object o
ApplyEdges(o, edges, af, etype, inplace) ==
    Step(Call("apply_edges", o, edges, etype, NoMsgFn, NoReduceFn, af, inplace),
         apply_edges(World, o, af, edges, etype, inplace))
    /\ scopes' = InplaceSeen(inplace)

\* g.nodes[u].data[key] = val (in place: g.nodes[u].data.update(...) under
\* inplace), rows u of field key of the only node type of object o
SetNRepr(o, u, data, inplace) ==
    Step([Call("set_n_repr", o, u, NoneArg, NoMsgFn, NoReduceFn, NoFn, inplace)
             EXCEPT !.data = data],
         _set_n_repr(World, o, 0, u, data, inplace))
    /\ scopes' = InplaceSeen(inplace)

\* g.local_var() on object o
LocalVar(o) ==
    Step(Call("local_var", o, ALL, NoneArg, NoMsgFn, NoReduceFn, NoFn, FALSE),
         local_var(World, o))
    /\ scopes' = Append(scopes, <<>>)

\* with g.local_scope(): the block is entered
EnterLocalScope(o) ==
    Step(Call("local_scope_enter", o, ALL, NoneArg, NoMsgFn, NoReduceFn, NoFn, FALSE),
         local_scope_enter(World, o))
    /\ scopes' = [scopes EXCEPT ![o] = Append(@, ScopeEntry(o))]

\* with g.local_scope(): the block is left
ExitLocalScope(o) ==
    /\ scopes[o] # <<>>
    /\ LET top == scopes[o][Len(scopes[o])] IN
       /\ Step([Call("local_scope_exit", o, ALL, NoneArg, NoMsgFn, NoReduceFn, NoFn, FALSE)
                   EXCEPT !.ret = top],
               local_scope_exit(World, o, top.old_nframes, top.old_eframes))
       /\ scopes' = [scopes EXCEPT ![o] = SubSeq(@, 1, Len(@) - 1)]

\* to_canonical_etype(etype), get_etype_id(etype), number_of_edges(etype)
ToCanonicalEtype(etype) ==
    LET r == to_canonical_etype(objs[1].g, etype) IN
    Step([Call("to_canonical_etype", 1, ALL, etype, NoMsgFn, NoReduceFn, NoFn, FALSE)
             EXCEPT !.ret = r.val],
         IF r.ok THEN World ELSE Raised(World, r.err))
    /\ UNCHANGED scopes

GetEtypeId(etype) ==
    LET r == get_etype_id(objs[1].g, etype) IN
    Step([Call("get_etype_id", 1, ALL, etype, NoMsgFn, NoReduceFn, NoFn, FALSE)
             EXCEPT !.ret = r.val],
         IF r.ok THEN World ELSE Raised(World, r.err))
    /\ UNCHANGED scopes

NumberOfEdges(etype) ==
    LET r == get_etype_id(objs[1].g, etype) IN
    Step([Call("number_of_edges", 1, ALL, etype, NoMsgFn, NoReduceFn, NoFn, FALSE)
             EXCEPT !.ret = IF r.ok THEN number_of_edges(objs[1].g, r.val) ELSE r.val],
         IF r.ok THEN World ELSE Raised(World, r.err))
    /\ UNCHANGED scopes

(***************************************************************************)
(* The send / recv protocol on graphs with one relation.                   *)
(***************************************************************************)
\* the graphs of the tests, with the initializer registered for 'h'
InitStores ==
    {<<Graph01, ZeroInitializer>>, <<Graph01, Init2>>,
     <<GraphMulti, ZeroInitializer>>, <<GraphChain, Init2>>}

Init == \E gi \in InitStores : InitWith(Store(gi[1], gi[2]))

Next ==
    \/ /\ steps < MaxSteps
       /\ \E edges \in EdgeArgs(objs[1].g, 0), mfn \in MessageFns :
              Send(edges, mfn, NoneArg)
    \/ /\ steps < MaxSteps
       /\ \E v \in NodeLists(objs[1].g, 0) \cup {ALL}, ra \in ReduceApply :
              Recv(v, ra[1], ra[2], NoneArg)

Spec == Init /\ [][Next]_vars

--------------------------------------------------------------------------
(***************************************************************************)
(* Observations of a state, used to state the properties.                  *)
(***************************************************************************)
PreWorld == [T |-> pre.T, F |-> pre.F, O |-> pre.O, L |-> <<>>, E |-> ""]

\* the relation and the node types the last call worked on
LastEtid == Etid(objs[last.o].g, last.etype)
LastStid == find_edge(objs[last.o].g, LastEtid)[1]
LastDtid == find_edge(objs[last.o].g, LastEtid)[2]

\* node data of the Store now and before the last call: field -> column
NodeNow(ntid) == FrameData(World, objs[1].nf[ntid])
NodeBefore(ntid) == FrameData(PreWorld, pre.O[1].nf[ntid])
EdgeNow(etid) == FrameData(World, objs[1].ef[etid])
EdgeBefore(etid) == FrameData(PreWorld, pre.O[1].ef[etid])

\* the row of node v before the last call
RowBefore(ntid, v) == [k \in DOMAIN NodeBefore(ntid) |-> NodeBefore(ntid)[k][v]]

\* the message a message function produces on edge e from the data before
\* the last call
MessageOf(mfn, etid, e) ==
    LET g == objs[1].g IN
    mfn.k * (IF mfn.from = "src"
             THEN NodeBefore(find_edge(g, etid)[1])[mfn.fld][g.edges[etid][e][1]]
             ELSE EdgeBefore(etid)[mfn.fld][e])

\* the edges of set E that enter node v
Mailbox(etid, E, v) == {e \in E : objs[1].g.edges[etid][e][2] = v}

\* what reduce returns for node v on the messages val[e], e in box
ReduceOf(rf, ntid, v, box, val) ==
    (IF rf.agg = "sum" THEN SumOver(box, val) ELSE MaxOver(box, val))
        + (IF rf.plus = "" THEN 0 ELSE RowBefore(ntid, v)[rf.plus])

\* the row of node v with field key set to x
RowWith(ntid, v, key, x) ==
    [k \in DOMAIN NodeBefore(ntid) \cup {key} |->
        IF k = key THEN x ELSE RowBefore(ntid, v)[k]]

\* the fields node v must hold after reduce left x in field rf.out and apply
\* (if any) ran on the row
HoldsAfter(rf, af, ntid, v, x) ==
    /\ rf.out \in DOMAIN NodeNow(ntid)
    /\ IF af.none THEN NodeNow(ntid)[rf.out][v] = x
       ELSE /\ af.out \in DOMAIN NodeNow(ntid)
            /\ NodeNow(ntid)[af.out][v] = ApplyValue(af, RowWith(ntid, v, rf.out, x))
            /\ af.out # rf.out => NodeNow(ntid)[rf.out][v] = x

\* the nodes reduce was invoked on by the last call
Reduced == UNION {calls[i].ids : i \in {j \in DOMAIN calls : calls[j].fn = "reduce"}}
Applied == UNION {calls[i].ids : i \in {j \in DOMAIN calls : calls[j].fn = "apply"}}

LastNodes == NodeSelection(objs[last.o].g, LastDtid, last.sel)
LastEdges == EdgeSelection(objs[last.o].g, LastEtid, last.sel)
PrevCall == history[steps - 1]
PrevEdges == EdgeSelection(objs[1].g, LastEtid, PrevCall.sel)

--------------------------------------------------------------------------
\* C4 (as amended): on the graph whose only edge is 0->1, after send on that
\* edge and recv([0,1], reduce, apply), node 1 holds apply(reduce(mailbox =
\* {message of h0})), and node 0, which has no message, is not reduced and
\* holds apply of its row with the field reduce writes set to that field's
\* initializer value.
C4_Case ==
    /\ objs[1].g = Graph01
    /\ steps >= 2
    /\ last.op = "recv" /\ ~last.af.none /\ LastNodes = {0, 1}
    /\ PrevCall.op = "send" /\ PrevEdges = {0}

C4_Node1 ==
    HoldsAfter(last.rf, last.af, 0, 1,
               ReduceOf(last.rf, 0, 1, {0}, [e \in {0} |-> MessageOf(PrevCall.mfn, 0, e)]))

C4_ZeroDegreeInitializer ==
    C4_Case =>
        /\ C4_Node1
        /\ 0 \notin Reduced
        /\ HoldsAfter(last.rf, last.af, 0, 0,
                      get_initializer(frames[objs[1].nf[0]], last.rf.out))

\* C4 as stated: node 0 holds apply(old_h0)
C4_ZeroDegreeOldValue ==
    C4_Case =>
        /\ C4_Node1
        /\ 0 \notin Reduced
        /\ NodeNow(0)[last.af.out][0] = ApplyValue(last.af, RowBefore(0, 0))

\* test_recv_0deg, test#1: with the initializer 2 and apply h * 2, node 0 holds 4
C4_Witness ==
    /\ C4_Case
    /\ get_initializer(frames[objs[1].nf[0]], "h") = Init2
    /\ NodeNow(0)["h"][0] = 4
    /\ NodeNow(0)["h"][1] = 2 * (NodeBefore(0)["h"][1] + PrevCall.mfn.k * NodeBefore(0)["h"][0])

--------------------------------------------------------------------------
PrevPrevCall == history[steps - 2]
PrevPrevEdges == EdgeSelection(objs[1].g, LastEtid, PrevPrevCall.sel)
MsgNow(etid) == objs[1].mf[etid]["m"]

\* C8: when send is followed by send on the same relation, every edge of the
\* second selection holds the second send's message and every edge only in
\* the first selection still holds the first send's, all of them pending;
\* a recv that follows reduces, at each selected node, over exactly the
\* messages of that combined set that enter it.
C8_SecondSend ==
    /\ steps >= 2
    /\ last.op = "send" /\ PrevCall.op = "send" /\ last.etype = PrevCall.etype

C8_RecvAfterSends ==
    /\ steps >= 3
    /\ last.op = "recv" /\ PrevCall.op = "send" /\ PrevPrevCall.op = "send"
    /\ last.etype = PrevCall.etype /\ last.etype = PrevPrevCall.etype
    /\ PrevPrevCall.pend[LastEtid] = {}

C8_SendOverwrites ==
    /\ C8_SecondSend =>
          /\ \A e \in LastEdges :
                 /\ e \in Pending(objs[1], LastEtid)
                 /\ MsgNow(LastEtid)[e] = MessageOf(last.mfn, LastEtid, e)
          /\ \A e \in PrevEdges \ LastEdges :
                 /\ e \in Pending(objs[1], LastEtid)
                 /\ MsgNow(LastEtid)[e] = MessageOf(PrevCall.mfn, LastEtid, e)
    /\ C8_RecvAfterSends =>
          LET sent == PrevEdges \cup PrevPrevEdges
              val == [e \in sent |->
                         IF e \in PrevEdges THEN MessageOf(PrevCall.mfn, LastEtid, e)
                         ELSE MessageOf(PrevPrevCall.mfn, LastEtid, e)]
          IN  \A v \in LastNodes :
                  LET box == Mailbox(LastEtid, sent, v) IN
                  box # {} =>
                      /\ \E i \in DOMAIN calls :
                             /\ calls[i].fn = "reduce" /\ v \in calls[i].ids
                             /\ calls[i].deg = Cardinality(box)
                      /\ HoldsAfter(last.rf, last.af, LastDtid, v,
                                    ReduceOf(last.rf, LastDtid, v, box, val))

\* a recv after two sends with different message functions whose selections
\* overlap, at a node that gets messages of both
C8_Witness ==
    /\ C8_RecvAfterSends
    /\ PrevCall.mfn # PrevPrevCall.mfn
    /\ \E v \in LastNodes :
           /\ Mailbox(LastEtid, PrevEdges \cap PrevPrevEdges, v) # {}
           /\ Mailbox(LastEtid, PrevPrevEdges \ PrevEdges, v) # {}
           /\ v \in Reduced

--------------------------------------------------------------------------
PrevNodes == NodeSelection(objs[1].g, LastDtid, PrevCall.sel)

\* C9: after recv(V) no in-edge of a node of V is pending, and a second
\* recv on nodes of V with no send in between never invokes reduce.
C9_SecondRecv ==
    /\ steps >= 2
    /\ last.op = "recv" /\ PrevCall.op = "recv" /\ last.etype = PrevCall.etype
    /\ LastNodes \subseteq PrevNodes

C9_ConsumedOnce ==
    last.op = "recv" =>
        /\ \A e \in AllEdges(objs[1].g, LastEtid) :
               objs[1].g.edges[LastEtid][e][2] \in LastNodes
                   => e \notin Pending(objs[1], LastEtid)
        /\ C9_SecondRecv => Reduced = {}

\* a second recv on nodes whose messages the first recv reduced
C9_Witness ==
    /\ C9_SecondRecv
    /\ \E e \in PrevCall.pend[LastEtid] : objs[1].g.edges[LastEtid][e][2] \in LastNodes
    /\ Reduced = {}

--------------------------------------------------------------------------
(***************************************************************************)
(* The fused calls (send_and_recv, pull, push, update_all) and the apply   *)
(* calls, next to send and recv, on one relation of each graph.            *)
(***************************************************************************)
FusedStores ==
    {<<Graph01, Init2>>, <<GraphNoEdge, Init2>>, <<GraphChain, ZeroInitializer>>,
     <<GraphTwoRel, Init2>>}

\* the relation the calls of a run pass messages on, and its destination type
FusedEtype(g) == IF number_of_etypes(g) = 1 THEN NoneArg ELSE StrArg("plays")
NtypeArg(g, ntid) == IF number_of_ntypes(g) = 1 THEN NoneArg ELSE StrArg(g.ntypes[ntid])

\* an edge UDF: {'w' : edges.data['w'] * 2}
edge_double == ApplyFn("w", 2, "", "w")

InitFused == \E gi \in FusedStores : InitWith(Store(gi[1], gi[2]))

\* the relation of the run and its source and destination node types
TheEtype == FusedEtype(objs[1].g)
TheEtid == Etid(objs[1].g, TheEtype)
TheStid == find_edge(objs[1].g, TheEtid)[1]
TheDtid == find_edge(objs[1].g, TheEtid)[2]

NextFused ==
    \/ /\ steps < MaxFused
       /\ \E edges \in EdgeArgs(objs[1].g, TheEtid) : Send(edges, copy_src_h3, TheEtype)
    \/ /\ steps < MaxFused
       /\ \E v \in NodeLists(objs[1].g, TheDtid) \cup {ALL}, ra \in ReduceApply :
              Recv(v, ra[1], ra[2], TheEtype)
    \/ /\ steps < MaxFused
       /\ \E edges \in EdgeArgs(objs[1].g, TheEtid) \ {ALL}, ra \in ReduceApply :
              SendAndRecv(edges, copy_src_h, ra[1], ra[2], TheEtype)
    \/ /\ steps < MaxFused
       /\ \E v \in NodeLists(objs[1].g, TheDtid), ra \in ReduceApply :
              Pull(v, copy_src_h, ra[1], ra[2], TheEtype)
    \/ /\ steps < MaxFused
       /\ \E u \in NodeLists(objs[1].g, TheStid), ra \in ReduceApply :
              Push(u, copy_src_h, ra[1], ra[2], TheEtype)
    \/ /\ steps < MaxFused
       /\ \E ra \in ReduceApply : UpdateAll(copy_src_h, ra[1], ra[2], TheEtype)
    \/ /\ steps < MaxFused
       /\ \E v \in NodeLists(objs[1].g, TheDtid) \cup {ALL} :
              ApplyNodes(1, v, apply_double, NtypeArg(objs[1].g, TheDtid), FALSE)
    \/ /\ steps < MaxFused
       /\ \E edges \in EdgeArgs(objs[1].g, TheEtid) :
              ApplyEdges(1, edges, edge_double, TheEtype, FALSE)

SpecFused == InitFused /\ [][NextFused]_vars

--------------------------------------------------------------------------
\* the in-edges of node set V in the relation of the last call
InEdgesOf(V) ==
    {e \in DOMAIN objs[1].g.edges[LastEtid] : objs[1].g.edges[LastEtid][e][2] \in V}

\* the observable state of the Store in world W: the data of every node
\* frame and the pending edges of every relation
Observable(W) ==
    [nodes |-> [nt \in DOMAIN W.O[1].nf |-> FrameData(W, W.O[1].nf[nt])],
     pending |-> PendingAll(W.O[1])]

\* the world send(in_edges(V), m) followed by recv(V, r, a) leads to from the
\* state before the last call, with the arguments of the last call
SendThenRecv ==
    recv(send(PreWorld, 1, IdsOf(InEdgesOf(LastNodes)), last.mfn, last.etype),
         1, last.sel, last.rf, last.af, last.etype, FALSE)

--------------------------------------------------------------------------
\* the nodes the last call (recv, pull or update_all) targets, the edges
\* whose messages it receives, and the message on each of them
Targets ==
    IF last.op = "update_all" THEN AllNodes(objs[1].g, LastDtid) ELSE LastNodes

Received ==
    IF last.op = "recv" THEN last.pend[LastEtid] \cap InEdgesOf(Targets)
    ELSE InEdgesOf(Targets)

ReceivedValue ==
    [e \in Received |->
        IF last.op = "recv" THEN pre.O[1].mf[LastEtid]["m"][e]
        ELSE MessageOf(last.mfn, LastEtid, e)]

\* C5: when recv, pull or update_all with an apply function targets nodes
\* with messages and nodes without, and the field reduce writes has a
\* registered initializer, every node without a message ends with apply
\* applied to its row holding the initializer's value in that field, and
\* every node with messages with apply(reduce(mailbox)).
C5_Case ==
    /\ last.op \in {"recv", "pull", "update_all"}
    /\ ~last.af.none
    /\ last.rf.out \in DOMAIN frames[objs[1].nf[LastDtid]].inits
    /\ \E v \in Targets : Mailbox(LastEtid, Received, v) = {}
    /\ \E v \in Targets : Mailbox(LastEtid, Received, v) # {}

C5_MixedTargets ==
    C5_Case =>
        \A v \in Targets :
            LET box == Mailbox(LastEtid, Received, v) IN
            IF box = {}
            THEN /\ v \notin Reduced
                 /\ HoldsAfter(last.rf, last.af, LastDtid, v,
                               frames[objs[1].nf[LastDtid]].inits[last.rf.out])
            ELSE HoldsAfter(last.rf, last.af, LastDtid, v,
                            ReduceOf(last.rf, LastDtid, v, box, ReceivedValue))

\* test_update_all_0deg, test_pull_0deg: with the initializer 2 and apply
\* h * 2 a node without a message holds 4, whatever it held before
C5_Witness ==
    /\ C5_Case
    /\ last.op \in {"pull", "update_all"}
    /\ \E v \in Targets :
           /\ Mailbox(LastEtid, Received, v) = {}
           /\ NodeNow(LastDtid)["h"][v] = 2 * Init2
           /\ NodeBefore(LastDtid)["h"][v] # Init2

--------------------------------------------------------------------------
\* C6: when no node of the recv (or pull) selection has a message to
\* receive (for recv: no pending in-edge; for pull: no in-edge), the call
\* is apply_nodes(apply_fn) on those nodes: reduce is not invoked, the
\* selected nodes get apply(current row), every other node keeps its
\* values and the messages pending for other nodes stay pending.
C6_Case ==
    /\ last.op \in {"recv", "pull"}
    /\ LastNodes # {}
    /\ Received = {}

C6_DowngradeToApply ==
    C6_Case =>
        /\ Reduced = {}
        /\ \A v \in AllNodes(objs[1].g, LastDtid), k \in DOMAIN NodeNow(LastDtid) :
               NodeNow(LastDtid)[k][v] =
                   IF v \in LastNodes /\ ~last.af.none /\ k = last.af.out
                   THEN ApplyValue(last.af, RowBefore(LastDtid, v))
                   ELSE NodeBefore(LastDtid)[k][v]
        /\ Observable(World) =
               Observable(apply_nodes(PreWorld, 1, last.af, last.sel,
                                      NtypeArg(objs[1].g, LastDtid), FALSE))

\* test_recv_0deg, test#2: recv on node 0 while the message to node 1 is pending
C6_Witness ==
    /\ C6_Case
    /\ last.op = "recv"
    /\ ~last.af.none
    /\ last.pend[LastEtid] # {}
    /\ Pending(objs[1], LastEtid) = last.pend[LastEtid]
    /\ Applied = LastNodes
    /\ NodeNow(LastDtid) # NodeBefore(LastDtid)

--------------------------------------------------------------------------
\* the calls that take a selection, and update_all, whose selection is
\* every edge of the relation
SelectionIsEmpty ==
    CASE last.op \in {"send", "apply_edges"} -> LastEdges = {}
      [] last.op \in {"recv", "pull"} -> LastNodes = {}
      [] last.op = "push" -> NodeSelection(objs[1].g, LastStid, last.sel) = {}
      [] last.op = "apply_nodes" ->
             NodeSelection(objs[1].g, get_ntype_id(objs[1].g, last.etype).val, last.sel) = {}
      [] last.op = "update_all" -> AllEdges(objs[1].g, LastEtid) = {}
      [] OTHER -> FALSE

NothingHappened ==
    /\ last.err = ""
    /\ calls = <<>>
    /\ tensors = pre.T /\ frames = pre.F /\ objs = pre.O

--------------------------------------------------------------------------
(***************************************************************************)
(* Type resolution on a Store whose relations share a bare name.           *)
(***************************************************************************)
MaxResolve == 2

\* edge type arguments: every bare name, a name of no relation, every triple
TypeArgs(g) ==
    {StrArg(g.etypes[i]) : i \in DOMAIN g.etypes} \cup {StrArg("likes")}
        \cup {TupleArg(canonical_etypes(g)[i]) : i \in DOMAIN g.etypes}

InitTypes == \E g \in {GraphAmbig, GraphTwoRel} : InitWith(Store(g, ZeroInitializer))

NextTypes ==
    \/ /\ steps < MaxResolve
       /\ \E etype \in TypeArgs(objs[1].g) : ToCanonicalEtype(etype)
    \/ /\ steps < MaxResolve
       /\ \E etype \in TypeArgs(objs[1].g) : GetEtypeId(etype)
    \/ /\ steps < MaxResolve
       /\ \E etype \in TypeArgs(objs[1].g) : NumberOfEdges(etype)
    \/ /\ steps < MaxResolve
       /\ \E etype \in TypeArgs(objs[1].g) : Send(ALL, copy_src_h, etype)
    \/ /\ steps < MaxResolve
       /\ \E etype \in TypeArgs(objs[1].g) : Recv(ALL, reduce_sum_h, NoFn, etype)
    \/ /\ steps < MaxResolve
       /\ \E etype \in TypeArgs(objs[1].g) :
              Pull(IdsOf({0}), copy_src_h, reduce_sum_h, NoFn, etype)
    \/ /\ steps < MaxResolve
       /\ \E etype \in TypeArgs(objs[1].g) :
              UpdateAll(copy_src_h, reduce_add_h, apply_double, etype)
    \/ /\ steps < MaxResolve
       /\ \E etype \in TypeArgs(objs[1].g) :
              ApplyEdges(1, Ids(EmptyMap), edge_double, etype, FALSE)

SpecTypes == InitTypes /\ [][NextTypes]_vars

\* the bare names that two or more relations of g carry
SharedNames(g) ==
    {g.etypes[i] : i \in {j \in DOMAIN g.etypes :
                            \E k \in DOMAIN g.etypes : k # j /\ g.etypes[k] = g.etypes[j]}}

\* the relations of g as (srctype, etype, dsttype)
Triples(g) ==
    {<<g.ntypes[g.meta[i][1]], g.etypes[i], g.ntypes[g.meta[i][2]]>> : i \in DOMAIN g.etypes}

\* C1: in a Store where two or more canonical edge types share a bare
\* name, every call that resolves an edge type from that bare name fails
\* with the ambiguity error (and changes nothing), and the same call with
\* the (srctype, etype, dsttype) triple of a relation succeeds.
C1_AmbiguousBareName ==
    LET g == objs[1].g IN
    steps >= 1 =>
        /\ (last.etype.kind = "str" /\ last.etype.name \in SharedNames(g)) =>
               /\ last.err = ErrAmbiguous
               /\ calls = <<>>
               /\ tensors = pre.T /\ frames = pre.F /\ objs = pre.O
        /\ (last.etype.kind = "tuple" /\ last.etype.triple \in Triples(g)) =>
               /\ last.err = ""
               /\ last.op = "to_canonical_etype" => last.ret = last.etype.triple
               /\ last.op = "get_etype_id" =>
                      /\ g.etypes[last.ret] = last.etype.triple[2]
                      /\ g.ntypes[g.meta[last.ret][1]] = last.etype.triple[1]
                      /\ g.ntypes[g.meta[last.ret][2]] = last.etype.triple[3]

\* update_all on the Store with two relations named follows: with the
\* triple it ran, with the bare name it failed
C1_Witness ==
    /\ steps >= 2
    /\ SharedNames(objs[1].g) = {"follows"}
    /\ PrevCall.op = "update_all" /\ last.op = "update_all"
    /\ PrevCall.etype = TupleArg(<<"developer", "follows", "game">>)
    /\ PrevCall.err = ""
    /\ last.etype = StrArg("follows")
    /\ last.err = ErrAmbiguous
    /\ NodeNow(1)["h"] # [v \in 0..1 |-> 11 + v]

--------------------------------------------------------------------------
(***************************************************************************)
(* Scoped views of a Store: local_var objects and local_scope blocks, with *)
(* feature writes and apply calls on the Store and on its views.           *)
(***************************************************************************)
MaxScope == 3

\* {'h2' : nodes.data['h'] * 3}: writes a field the frame does not hold
apply_new == ApplyFn("h", 3, "", "h2")

\* g.nodes[u].data[key] = 7: <<u, key, inplace>>
ScopeWrites ==
    {<<ALL, "h", FALSE>>, <<ALL, "x", FALSE>>,
     <<IdsOf({0}), "h", FALSE>>, <<IdsOf({0}), "h", TRUE>>}

WriteData(g, u, key) == (key :> [i \in Rows(NumTargets(u, number_of_nodes(g, 0))) |-> 7])

ScopeApplies ==
    {<<ALL, apply_double, FALSE>>, <<ALL, apply_new, FALSE>>,
     <<IdsOf({0}), apply_double, FALSE>>, <<IdsOf({0}), apply_double, TRUE>>}

ScopeEdgeApplies == {<<ALL, edge_double, FALSE>>, <<IdsOf({0}), edge_double, TRUE>>}

InitScope == InitWith(Store(Graph01, ZeroInitializer))

NextScope ==
    \/ /\ steps < MaxScope
       /\ LocalVar(1)
    \/ /\ steps < MaxScope
       /\ EnterLocalScope(1)
    \/ /\ steps < MaxScope
       /\ ExitLocalScope(1)
    \/ /\ steps < MaxScope
       /\ \E o \in DOMAIN objs, w \in ScopeWrites :
              SetNRepr(o, w[1], WriteData(objs[o].g, w[1], w[2]), w[3])
    \/ /\ steps < MaxScope
       /\ \E o \in DOMAIN objs, a \in ScopeApplies : ApplyNodes(o, a[1], a[2], NoneArg, a[3])
    \/ /\ steps < MaxScope
       /\ \E o \in DOMAIN objs, a \in ScopeEdgeApplies :
              ApplyEdges(o, a[1], a[2], NoneArg, a[3])

SpecScope == InitScope /\ [][NextScope]_vars

\* a frame as seen from outside, with tensor heap T and frame heap F: for
\* each field, the tensor it is bound to and the tensor's values
FrameView(T, F, fid) ==
    [k \in DOMAIN F[fid].cols |-> [id |-> F[fid].cols[k], val |-> T[F[fid].cols[k]]]]

FrameBinding(F, fid) == [k \in DOMAIN F[fid].cols |-> F[fid].cols[k]]

\* the node and edge frames of object o
FramesOf(O, o) ==
    {O[o].nf[i] : i \in DOMAIN O[o].nf} \cup {O[o].ef[i] : i \in DOMAIN O[o].ef}

\* C2: a field created in a scoped view (local_var object, local_scope
\* block) is absent from the Store after the scope, and whole-column
\* overwrites and out-of-place row updates in the scope, those of
\* apply_nodes and apply_edges included, leave every column the Store had
\* bound to the values it had.
C2_ViewWrite ==
    /\ steps >= 1
    /\ last.o # 1
    /\ last.op \in {"set_n_repr", "apply_nodes", "apply_edges"}
    /\ ~last.inplace

C2_ScopeExit == steps >= 1 /\ last.op = "local_scope_exit"

C2_ScopeIsolation ==
    /\ C2_ViewWrite =>
           \A fid \in FramesOf(objs, 1) :
               FrameView(tensors, frames, fid) = FrameView(pre.T, pre.F, fid)
    /\ C2_ScopeExit =>
           /\ objs[last.o].nf = last.ret.old_nframes
           /\ objs[last.o].ef = last.ret.old_eframes
           /\ \A fid \in FramesOf(objs, last.o) :
                  /\ FrameBinding(frames, fid) = FrameBinding(last.ret.F, fid)
                  /\ ~last.ret.inplace =>
                         FrameView(tensors, frames, fid) = FrameView(last.ret.T, last.ret.F, fid)

\* the end of a local_scope block in which a field was created and no
\* in-place write was made: the Store does not hold the field
C2_Witness ==
    /\ C2_ScopeExit
    /\ ~last.ret.inplace
    /\ \E k \in DOMAIN pre.F[pre.O[1].nf[0]].cols : k \notin DOMAIN frames[objs[1].nf[0]].cols
    /\ "h" \in DOMAIN frames[objs[1].nf[0]].cols

--------------------------------------------------------------------------
(***************************************************************************)
(* update_all and pull on the 10-node graph of the tests.                  *)
(***************************************************************************)
MaxRounds == 2

GenReduceApply ==
    {<<reduce_sum_h, NoFn>>, <<reduce_max_h, NoFn>>, <<reduce_add_h, apply_double>>}

InitGen == InitWith(Store(GraphGen, ZeroInitializer))

NextGen ==
    \/ /\ steps < MaxRounds
       /\ \E mfn \in MessageFns, ra \in GenReduceApply : UpdateAll(mfn, ra[1], ra[2], NoneArg)
    \/ /\ steps < MaxRounds
       /\ \E v \in {IdsOf({0}), IdsOf({9}), IdsOf({1, 9})}, ra \in GenReduceApply :
              Pull(v, copy_src_h, ra[1], ra[2], NoneArg)

SpecGen == InitGen /\ [][NextGen]_vars

\* the number of messages reduce was given for node v by the last call
MessagesAt(v) ==
    IF \E i \in DOMAIN calls : calls[i].fn = "reduce" /\ v \in calls[i].ids
    THEN LET i == CHOOSE j \in DOMAIN calls : calls[j].fn = "reduce" /\ v \in calls[j].ids
         IN  calls[i].deg
    ELSE 0

\* the source nodes of the edges of the 10-node graph that enter node v
SourcesOf(v) == {GraphGen.edges[0][e][1] : e \in {x \in 0..16 : GraphGen.edges[0][x][2] = v}}

C7_Case == steps >= 1 /\ last.op = "update_all" /\ objs[1].g = GraphGen

\* what node v holds after the update_all, given the messages of the edges
\* that enter it
C7_ValueAt(v) ==
    HoldsAfter(last.rf, last.af, 0, v,
               ReduceOf(last.rf, 0, v, InEdgesOf({v}),
                        [e \in InEdgesOf({v}) |-> MessageOf(last.mfn, 0, e)]))

\* C7 (as amended): on the 10-node graph update_all delivers 8 messages to
\* node 9 (from nodes 1..8), 1 message to node 0 (from node 9) and 1
\* message to each of the nodes 1..8 (from node 0); no node receives 0
\* messages, and every node holds the reduction of its messages.
C7_MessageCounts ==
    C7_Case =>
        /\ MessagesAt(9) = 8 /\ SourcesOf(9) = 1..8
        /\ MessagesAt(0) = 1 /\ SourcesOf(0) = {9}
        /\ \A v \in 1..8 : MessagesAt(v) = 1 /\ SourcesOf(v) = {0}
        /\ \A v \in 0..9 : C7_ValueAt(v)

\* C7 as stated: the nodes 1..8 receive no message and keep their value
C7_OthersRetainValue ==
    C7_Case =>
        /\ MessagesAt(9) = 8 /\ SourcesOf(9) = 1..8
        /\ MessagesAt(0) = 1 /\ SourcesOf(0) = {9}
        /\ \A v \in 1..8 :
               /\ MessagesAt(v) = 0
               /\ NodeNow(0)["h"][v] = NodeBefore(0)["h"][v]

\* update_all(copy_src, sum) as the first call: node 9 holds 2 + ... + 9,
\* node 0 what node 9 held, node 1 what node 0 held
C7_Witness ==
    /\ C7_Case
    /\ steps = 1
    /\ last.mfn = copy_src_h /\ last.rf = reduce_sum_h /\ last.af.none
    /\ NodeNow(0)["h"][9] = 44
    /\ NodeNow(0)["h"][0] = 10
    /\ NodeNow(0)["h"][1] = 1
    /\ NodeBefore(0)["h"][1] = 2

--------------------------------------------------------------------------
\* C11: update_all(msg, reduce, apply) on a relation with no edge falls back
\* to apply: every node's field ends as apply of its old row, reduce is
\* never invoked and the initializer is not used.
C11_Case ==
    /\ steps >= 1
    /\ last.op = "update_all"
    /\ last.err = ""
    /\ ~last.af.none
    /\ AllEdges(objs[1].g, LastEtid) = {}

C11_NoEdgeFallsBackToApply ==
    C11_Case =>
        /\ Reduced = {}
        /\ Applied = AllNodes(objs[1].g, LastDtid)
        /\ \A v \in AllNodes(objs[1].g, LastDtid), k \in DOMAIN NodeNow(LastDtid) :
               NodeNow(LastDtid)[k][v] =
                   IF k = last.af.out THEN ApplyValue(last.af, RowBefore(LastDtid, v))
                   ELSE NodeBefore(LastDtid)[k][v]

\* test_update_all_0deg, test#2: with the initializer 2 registered and apply
\* h * 2, a node that held 1 holds 2 and not 2 * 2
C11_Witness ==
    /\ C11_Case
    /\ get_initializer(frames[objs[1].nf[LastDtid]], "h") = Init2
    /\ \E v \in AllNodes(objs[1].g, LastDtid) :
           /\ NodeBefore(LastDtid)["h"][v] = 1
           /\ NodeNow(LastDtid)["h"][v] = 2

--------------------------------------------------------------------------
(***************************************************************************)
(* Message passing over several relations at once.                         *)
(***************************************************************************)
MaxMulti == 2

\* the graph of the multi_update_all example, user-follows->user and
\* game-attracts->user, with a third user and a relation user-plays->game
GraphMultiRel ==
    GraphIndex(<<"user", "game">>,
               <<"follows", "attracts", "plays">>,
               << <<0, 0>>, <<1, 0>>, <<0, 1>> >>,
               <<3, 1>>,
               << ZSeq(<< <<0, 1>>, <<1, 1>> >>),
                  ZSeq(<< <<0, 1>> >>),
                  ZSeq(<< <<0, 0>> >>) >>)

\* the dictionaries of the calls: the keys in insertion order; the first
\* item sends h, the second h * 3
MultiKeys ==
    {<<"follows">>, <<"follows", "attracts">>, <<"follows", "plays">>}

MultiDict(keys, edges, rf) ==
    [i \in DOMAIN keys |->
        DictEntry(StrArg(keys[i]), edges, IF i = 1 THEN copy_src_h ELSE copy_src_h3,
                  rf, NoFn)]

\* <<cross_reducer, reduce function of every item, apply_node_func>>
CrossArgs ==
    {<<"sum", reduce_sum_h, NoFn>>, <<"sum", reduce_sum_h, apply_double>>,
     <<"stack", reduce_accum, NoFn>>}

MultiCall(op, v, etype_dict, cross_reducer, af) ==
    [dict |-> etype_dict, cross |-> cross_reducer]
        @@ Call(op, 1, v, NoneArg, NoMsgFn, NoReduceFn, af, FALSE)

MultiRecv(v, etype_dict, cross_reducer, af) ==
    \E Wn \in {multi_recv(World, 1, v, etype_dict, cross_reducer, af, FALSE)} :
        Step(MultiCall("multi_recv", v, etype_dict, cross_reducer, af), Wn)
    /\ UNCHANGED scopes

MultiSendAndRecv(etype_dict, cross_reducer, af) ==
    \E Wn \in {multi_send_and_recv(World, 1, etype_dict, cross_reducer, af, FALSE)} :
        Step(MultiCall("multi_send_and_recv", ALL, etype_dict, cross_reducer, af), Wn)
    /\ UNCHANGED scopes

MultiPull(v, etype_dict, cross_reducer, af) ==
    \E Wn \in {multi_pull(World, 1, v, etype_dict, cross_reducer, af, FALSE)} :
        Step(MultiCall("multi_pull", v, etype_dict, cross_reducer, af), Wn)
    /\ UNCHANGED scopes

MultiUpdateAll(etype_dict, cross_reducer, af) ==
    \E Wn \in {multi_update_all(World, 1, etype_dict, cross_reducer, af)} :
        Step(MultiCall("multi_update_all", ALL, etype_dict, cross_reducer, af), Wn)
    /\ UNCHANGED scopes

\* the runs start from the graph with its features, with no message pending
\* or with the messages of send on follows and on attracts pending
MultiStores ==
    LET W == Store(GraphMultiRel, ZeroInitializer) IN
    {W, [send(send(W, 1, ALL, copy_src_h, StrArg("follows")),
              1, ALL, copy_src_h3, StrArg("attracts")) EXCEPT !.L = <<>>]}

InitMulti == \E W \in MultiStores : InitWith(W)

NextMulti ==
    \/ /\ steps < MaxMulti
       /\ \E et \in {"follows", "attracts"} : Send(ALL, copy_src_h, StrArg(et))
    \/ /\ steps < MaxMulti
       /\ \E v \in {IdsOf({0, 1})}, keys \in MultiKeys, c \in CrossArgs :
              MultiRecv(v, MultiDict(keys, ALL, c[2]), c[1], c[3])
    \/ /\ steps < MaxMulti
       /\ \E edges \in {IdsOf({0})}, keys \in MultiKeys, c \in CrossArgs :
              MultiSendAndRecv(MultiDict(keys, edges, c[2]), c[1], c[3])
    \/ /\ steps < MaxMulti
       /\ \E v \in {Ids(EmptyMap), IdsOf({1})}, keys \in MultiKeys, c \in CrossArgs :
              MultiPull(v, MultiDict(keys, ALL, c[2]), c[1], c[3])
    \/ /\ steps < MaxMulti
       /\ \E keys \in MultiKeys, c \in CrossArgs :
              MultiUpdateAll(MultiDict(keys, ALL, c[2]), c[1], c[3])

SpecMulti == InitMulti /\ [][NextMulti]_vars

--------------------------------------------------------------------------
\* the relation of the i-th key of the last call's dictionary and its
\* destination node type
KeyEtid(i) == Etid(objs[1].g, last.dict[i].etype)
KeyDtid(i) == find_edge(objs[1].g, KeyEtid(i))[2]

IsMulti == steps >= 1 /\ last.op \in {"multi_recv", "multi_send_and_recv", "multi_pull",
                                      "multi_update_all"}

\* every key of the dictionary names a relation, and two of them have
\* different destination node types
MixedDestinations ==
    /\ \A i \in DOMAIN last.dict : get_etype_id(objs[1].g, last.dict[i].etype).ok
    /\ \E i, j \in DOMAIN last.dict : KeyDtid(i) # KeyDtid(j)

FailedUnwritten(err) ==
    /\ last.err = err
    /\ calls = <<>>
    /\ tensors = pre.T /\ frames = pre.F /\ objs = pre.O

\* C12 (as amended): multi_recv, multi_send_and_recv and multi_pull (given
\* a list of nodes that is not empty) infer one destination node type from
\* the relation keys and fail with the cannot-infer-destination error,
\* before any node frame is written, whenever two relation keys have
\* different destination node types.
C12_Case ==
    /\ IsMulti
    /\ last.op # "multi_update_all"
    /\ last.op = "multi_pull" => ToSet(last.sel.ids) # {}
    /\ MixedDestinations

C12_AmbiguousDestination == C12_Case => FailedUnwritten(ErrCannotInfer)

\* C12 as stated: the same of multi_update_all, and of multi_pull whatever
\* the list of nodes
C12_AllMultiCalls == (IsMulti /\ MixedDestinations) => FailedUnwritten(ErrCannotInfer)

\* multi_recv on the keys follows (to user) and plays (to game) while
\* messages are pending: the call fails and the messages stay pending
C12_Witness ==
    /\ C12_Case
    /\ last.op = "multi_recv"
    /\ \E et \in DOMAIN last.pend : last.pend[et] # {}
    /\ FailedUnwritten(ErrCannotInfer)

--------------------------------------------------------------------------
\* what the i-th item of the last call's dictionary does: the edges it
\* sends on, the nodes it receives on, the edges whose messages it reduces
\* and the message on each of them
RelSent(i) ==
    LET g == objs[1].g IN
    CASE last.op = "multi_recv" -> {}
      [] last.op = "multi_send_and_recv" ->
             EdgeSelection(g, KeyEtid(i), last.dict[i].edges)
      [] last.op = "multi_pull" -> in_edges(g, KeyEtid(i), ToSet(last.sel.ids))
      [] last.op = "multi_update_all" -> AllEdges(g, KeyEtid(i))

RelNodes(i) ==
    LET g == objs[1].g IN
    CASE last.op \in {"multi_recv", "multi_pull"} -> ToSet(last.sel.ids)
      [] last.op = "multi_send_and_recv" -> DstNodes(g, KeyEtid(i), RelSent(i))
      [] last.op = "multi_update_all" -> AllNodes(g, KeyDtid(i))

RelEdges(i) ==
    in_edges(objs[1].g, KeyEtid(i), RelNodes(i))
        \cap (last.pend[KeyEtid(i)] \cup RelSent(i))

RelMessage(i, e) ==
    IF e \in RelSent(i) THEN MessageOf(last.dict[i].mfn, KeyEtid(i), e)
    ELSE pre.O[1].mf[KeyEtid(i)]["m"][e]

\* the output of the i-th relation's reducer for node r, from the features
\* and the messages before the call; the initializer's value without messages
RelOut(i, r) ==
    LET box == Mailbox(KeyEtid(i), RelEdges(i), r) IN
    IF box = {} THEN ZeroInitializer
    ELSE SumOver(box, [e \in RelEdges(i) |-> RelMessage(i, e)])

\* the nodes the call's apply_node_func runs on
MultiApplied ==
    IF last.af.none THEN {} ELSE UNION {RelNodes(i) : i \in DOMAIN last.dict}

\* a call over two relations into one node type, both reducing messages
\* into the same field
TwoRelationsOneField ==
    /\ IsMulti /\ last.err = ""
    /\ Len(last.dict) = 2
    /\ \A i \in DOMAIN last.dict : get_etype_id(objs[1].g, last.dict[i].etype).ok
    /\ KeyDtid(1) = KeyDtid(2)
    /\ last.dict[1].rf.out = last.dict[2].rf.out
    /\ \A i \in DOMAIN last.dict : RelEdges(i) # {}

\* C13: when two relations into node type T both produce the same output
\* field and cross_reducer is 'sum', the field on T holds, node by node, the
\* sum of the two relations' reducer outputs, each computed from the
\* features before the call (and apply_node_func of that, where it runs).
C13_Case == TwoRelationsOneField /\ last.cross = "sum"

C13_SumAcrossRelations ==
    C13_Case =>
        LET T == KeyDtid(1)
            rf == last.dict[1].rf
        IN  /\ rf.out \in DOMAIN NodeNow(T)
            /\ \A r \in AllNodes(objs[1].g, T) :
                   LET s == RelOut(1, r) + RelOut(2, r) IN
                   IF r \in MultiApplied THEN HoldsAfter(rf, last.af, T, r, s)
                   ELSE NodeNow(T)[rf.out][r] = s

\* multi_update_all over follows and attracts: user 1 holds (1 + 2) from
\* follows plus 3 * 11 from attracts, user 0 the sum of two initial values
C13_Witness ==
    /\ C13_Case
    /\ last.op = "multi_update_all" /\ last.af.none
    /\ KeyEtid(1) = 0 /\ KeyEtid(2) = 1
    /\ NodeNow(0)["h"][1] = 36
    /\ NodeNow(0)["h"][0] = 0

--------------------------------------------------------------------------
\* the axes of a stacked column ahead of the axes of a feature row: the
\* rows of the column, the items of a row, the items of each of these
StackedAxes(col) ==
    LET r == CHOOSE r \in DOMAIN col : TRUE
    IN  <<Cardinality(DOMAIN col), Len(col[r]), Len(col[r][1])>>

C14_Case == TwoRelationsOneField /\ last.cross = "stack" /\ last.af.none

\* C14: for two relations into node type T with outputs of the same shape,
\* cross_reducer 'stack' gives the shared field one new axis of size 2
\* ahead of the per-relation output shape (read for the whole column of N
\* rows, axes (2, N), or row by row, axes (N, 2)), and both contributions
\* can be told apart in it.
C14_StackNewLeadingAxis ==
    C14_Case =>
        LET T == KeyDtid(1)
            N == Cardinality(AllNodes(objs[1].g, T))
            col == NodeNow(T)[last.dict[1].rf.out]
        IN  /\ StackedAxes(col) \in {<<2, N>>, <<N, 2>>}
            /\ \A r \in DOMAIN col, i \in 1..2 : col[r][i][1] = RelOut(i, r)

--------------------------------------------------------------------------
(***************************************************************************)
(* Setting and popping features.                                           *)
(***************************************************************************)
MaxFeat == 2

\* g.edges[eid].data[...] = ..., rows eid of the only edge type of object o
SetERepr(o, eid, data, inplace) ==
    Step([Call("set_e_repr", o, eid, NoneArg, NoMsgFn, NoReduceFn, NoFn, inplace)
             EXCEPT !.data = data],
         _set_e_repr(World, o, 0, eid, data, inplace))
    /\ scopes' = InplaceSeen(inplace)

\* the dictionaries of a set over some of the fields keys: every column has
\* either n rows or one row more, and holds 7
FeatDicts(keys, n) ==
    UNION {[S -> {[r \in Rows(n) |-> 7], [r \in Rows(n + 1) |-> 7]}] :
              S \in SUBSET keys \ {{}}}

\* <<rows, inplace>> of the sets
FeatTargets == {<<ALL, FALSE>>, <<IdsOf({0, 1}), FALSE>>, <<IdsOf({1}), TRUE>>}

InitFeat == InitWith(Store(GraphChain, ZeroInitializer))

PopCall(op, o, key, ret) ==
    [Call(op, o, ALL, NoneArg, NoMsgFn, NoReduceFn, NoFn, FALSE) EXCEPT !.ret = ret,
                                                                        !.data = key]

\* _pop_n_repr(0, key) and _pop_e_repr(0, key) on object o
PopNRepr(o, key) ==
    Step(PopCall("pop_n_repr", o, key, _pop_n_repr_return(World, o, 0, key)),
         _pop_n_repr(World, o, 0, key))
    /\ UNCHANGED scopes

PopERepr(o, key) ==
    Step(PopCall("pop_e_repr", o, key, _pop_e_repr_return(World, o, 0, key)),
         _pop_e_repr(World, o, 0, key))
    /\ UNCHANGED scopes

\* the fields popped are fields the frame holds
NextFeat ==
    \/ /\ steps < MaxFeat
       /\ \E t \in FeatTargets :
              \E data \in FeatDicts({"h", "x"},
                                    NumTargets(t[1], number_of_nodes(objs[1].g, 0))) :
                  SetNRepr(1, t[1], data, t[2])
    \/ /\ steps < MaxFeat
       /\ \E t \in FeatTargets :
              \E data \in FeatDicts({"w", "y"},
                                    NumTargets(t[1], number_of_edges(objs[1].g, 0))) :
                  SetERepr(1, t[1], data, t[2])
    \/ /\ steps < MaxFeat
       /\ \E key \in Keys(World, objs[1].nf[0]) : PopNRepr(1, key)
    \/ /\ steps < MaxFeat
       /\ \E key \in Keys(World, objs[1].ef[0]) : PopERepr(1, key)

SpecFeat == InitFeat /\ [][NextFeat]_vars

--------------------------------------------------------------------------
\* the number of rows the last set targets
SetNodes == steps >= 1 /\ last.op = "set_n_repr"
SetEdges == steps >= 1 /\ last.op = "set_e_repr"

TargetRows ==
    NumTargets(last.sel, IF SetNodes THEN number_of_nodes(objs[1].g, 0)
                         ELSE number_of_edges(objs[1].g, 0))

WrongFields == {key \in DOMAIN last.data : Size(last.data[key]) # TargetRows}

\* C15: a set of node or of edge features, over ALL or over a list of
\* rows, in which some field's number of rows differs from the number of
\* rows targeted fails with the shape error and no column, frame or tensor
\* has changed, also when another field of the same call is right.
C15_Case == (SetNodes \/ SetEdges) /\ WrongFields # {}

C15_ShapeErrorBeforeWrite ==
    C15_Case =>
        /\ last.err = ErrShape
        /\ tensors = pre.T /\ frames = pre.F /\ objs = pre.O

\* a set of the edge fields w and y on rows 0 and 1, w with two rows and y
\* with three: the error, and w is as before
C15_Witness ==
    /\ SetEdges /\ ~is_all(last.sel)
    /\ DOMAIN last.data = {"w", "y"} /\ WrongFields = {"y"}
    /\ last.err = ErrShape
    /\ EdgeNow(0) = EdgeBefore(0)

--------------------------------------------------------------------------
(***************************************************************************)
(* Queries that leave the type out.                                        *)
(***************************************************************************)
MaxNone == 2

\* dgl.bipartite([(0, 1)], 'game', 'attracts', 'user'): two node types and
\* one edge type
GraphBipartite ==
    GraphIndex(<<"game", "user">>, <<"attracts">>, << <<0, 1>> >>, <<1, 2>>,
               << ZSeq(<< <<0, 1>> >>) >>)

\* node type arguments: None, every name, a name of no node type
NtypeArgs(g) == {NoneArg, StrArg("item")} \cup {StrArg(g.ntypes[i]) : i \in DOMAIN g.ntypes}

\* edge type arguments: None, every name, a name of no relation
EtypeNoneArgs(g) ==
    {NoneArg, StrArg("likes")} \cup {StrArg(g.etypes[i]) : i \in DOMAIN g.etypes}

QueryCall(op, ntype, etype, r, val) ==
    [ntype |-> ntype]
        @@ [Call(op, 1, ALL, etype, NoMsgFn, NoReduceFn, NoFn, FALSE)
               EXCEPT !.ret = IF r.ok THEN val ELSE r.val]

QueryStep(op, ntype, etype, r, val) ==
    Step(QueryCall(op, ntype, etype, r, val), IF r.ok THEN World ELSE Raised(World, r.err))
    /\ UNCHANGED scopes

GetNtypeId(ntype) ==
    LET r == get_ntype_id(objs[1].g, ntype) IN
    QueryStep("get_ntype_id", ntype, NoneArg, r, r.val)

\* number_of_nodes(ntype)
NumberOfNodes(ntype) ==
    LET r == get_ntype_id(objs[1].g, ntype) IN
    QueryStep("number_of_nodes", ntype, NoneArg, r,
              IF r.ok THEN number_of_nodes(objs[1].g, r.val) ELSE 0)

\* in_degrees(ALL, etype): the in-degree of every node of the destination type
InDegrees(etype) ==
    LET g == objs[1].g
        r == get_etype_id(g, etype)
    IN  QueryStep("in_degrees", NoneArg, etype, r,
                  IF r.ok
                  THEN [v \in AllNodes(g, find_edge(g, r.val)[2]) |->
                           Cardinality(in_edges(g, r.val, {v}))]
                  ELSE EmptyMap)

InitNone ==
    \E g \in {Graph01, GraphBipartite, GraphTwoRel} : InitWith(Store(g, ZeroInitializer))

NextNone ==
    \/ /\ steps < MaxNone
       /\ \E ntype \in NtypeArgs(objs[1].g) : GetNtypeId(ntype)
    \/ /\ steps < MaxNone
       /\ \E ntype \in NtypeArgs(objs[1].g) : NumberOfNodes(ntype)
    \/ /\ steps < MaxNone
       /\ \E etype \in EtypeNoneArgs(objs[1].g) : GetEtypeId(etype)
    \/ /\ steps < MaxNone
       /\ \E etype \in EtypeNoneArgs(objs[1].g) : NumberOfEdges(etype)
    \/ /\ steps < MaxNone
       /\ \E etype \in EtypeNoneArgs(objs[1].g) : InDegrees(etype)

SpecNone == InitNone /\ [][NextNone]_vars

--------------------------------------------------------------------------
\* the last call resolved a node type (an edge type) given as None
NtypeOmitted ==
    /\ steps >= 1
    /\ last.op \in {"get_ntype_id", "number_of_nodes"}
    /\ last.ntype = NoneArg

EtypeOmitted ==
    /\ steps >= 1
    /\ last.op \in {"get_etype_id", "number_of_edges", "in_degrees"}
    /\ last.etype = NoneArg

\* what the last call returns when it is answered for type 0
AnswerForFirstType ==
    LET g == objs[1].g IN
    CASE last.op \in {"get_ntype_id", "get_etype_id"} -> last.ret = 0
      [] last.op = "number_of_nodes" -> last.ret = g.nnodes[0]
      [] last.op = "number_of_edges" -> last.ret = Cardinality(DOMAIN g.edges[0])
      [] last.op = "in_degrees" ->
             last.ret = [v \in Rows(g.nnodes[g.meta[0][2]]) |->
                            Cardinality({e \in DOMAIN g.edges[0] : g.edges[0][e][2] = v})]

\* C16: a node type (an edge type) given as None resolves, to id 0, only
\* if the graph has exactly one node type (edge type); with two or more,
\* get_ntype_id(None) (get_etype_id(None)) and the queries that leave the
\* type out fail with the must-be-specified error.
C16_NoneNeedsOneType ==
    /\ NtypeOmitted =>
           IF Cardinality(DOMAIN objs[1].g.ntypes) = 1
           THEN last.err = "" /\ AnswerForFirstType
           ELSE last.err = ErrMustSpecify
    /\ EtypeOmitted =>
           IF Cardinality(DOMAIN objs[1].g.etypes) = 1
           THEN last.err = "" /\ AnswerForFirstType
           ELSE last.err = ErrMustSpecify

\* on the bipartite graph number_of_edges() answers 1 and number_of_nodes()
\* fails: one edge type, two node types
C16_Witness ==
    /\ steps = 2
    /\ objs[1].g = GraphBipartite
    /\ PrevCall.op = "number_of_edges" /\ PrevCall.etype = NoneArg
    /\ PrevCall.err = "" /\ PrevCall.ret = 1
    /\ NtypeOmitted /\ last.op = "number_of_nodes"
    /\ last.err = ErrMustSpecify

--------------------------------------------------------------------------
(***************************************************************************)
(* local_scope blocks inside local_scope blocks.                           *)
(***************************************************************************)
MaxNest == 6
MaxDepth == 2

\* the fields the blocks create: g.ndata['hh'], g.ndata['hhh'], g.edata['ww']
NestNodeFields == {"hh", "hhh"}
NestEdgeFields == {"ww"}

NewColumn(key, n) == (key :> [r \in Rows(n) |-> 1])

InitNest == InitWith(Store(GraphChain, ZeroInitializer))

NextNest ==
    \/ /\ steps < MaxNest
       /\ Len(scopes[1]) < MaxDepth
       /\ EnterLocalScope(1)
    \/ /\ steps < MaxNest
       /\ ExitLocalScope(1)
    \/ /\ steps < MaxNest
       /\ \E key \in NestNodeFields :
              SetNRepr(1, ALL, NewColumn(key, number_of_nodes(objs[1].g, 0)), FALSE)
    \/ /\ steps < MaxNest
       /\ \E key \in NestEdgeFields :
              SetERepr(1, ALL, NewColumn(key, number_of_edges(objs[1].g, 0)), FALSE)

SpecNest == InitNest /\ [][NextNest]_vars

--------------------------------------------------------------------------
\* how many blocks are open after the i-th call
ScopeDepth(i) ==
    Cardinality({j \in 1..i : history[j].op = "local_scope_enter"})
        - Cardinality({j \in 1..i : history[j].op = "local_scope_exit"})

\* the call that entered the block the n-th call leaves
EnterOf(n) ==
    CHOOSE m \in 1..(n - 1) :
        /\ history[m].op = "local_scope_enter"
        /\ ScopeDepth(m) = ScopeDepth(n) + 1
        /\ \A j \in m..(n - 1) : ScopeDepth(j) >= ScopeDepth(m)

\* the fields set by the calls op between the m-th and the n-th call
FieldsSetIn(op, m, n) ==
    UNION {DOMAIN history[j].data : j \in {i \in (m + 1)..(n - 1) : history[i].op = op}}

\* the fields of a frame of the object when the block was entered, and now
KeysAtEntry(entry, fid) == DOMAIN entry.F[fid].cols
KeysNow(fid) == DOMAIN frames[fid].cols

C17_Case == steps >= 1 /\ last.op = "local_scope_exit"

\* C17: local_scope blocks restore the frames last-in first-out: when a
\* block is left, the fields created in it are gone and the fields present
\* when it was entered, those created by the enclosing block included, are
\* still there; when the outermost block is left, the frames of the graph
\* are the ones it had when that block was entered, with their columns.
C17_NestedScopesLIFO ==
    C17_Case =>
        LET m == EnterOf(steps)
            nf == objs[1].nf[0]
            ef == objs[1].ef[0]
            nf0 == last.ret.old_nframes[0]
            ef0 == last.ret.old_eframes[0]
        IN  /\ \A k \in FieldsSetIn("set_n_repr", m, steps) \ KeysAtEntry(last.ret, nf0) :
                   k \notin KeysNow(nf)
            /\ \A k \in FieldsSetIn("set_e_repr", m, steps) \ KeysAtEntry(last.ret, ef0) :
                   k \notin KeysNow(ef)
            /\ KeysAtEntry(last.ret, nf0) \subseteq KeysNow(nf)
            /\ KeysAtEntry(last.ret, ef0) \subseteq KeysNow(ef)
            /\ ScopeDepth(steps) = 0 =>
                   /\ objs[1].nf = last.ret.old_nframes
                   /\ objs[1].ef = last.ret.old_eframes
                   /\ \A fid \in FramesOf(objs, 1) :
                          FrameView(tensors, frames, fid)
                              = FrameView(last.ret.T, last.ret.F, fid)

\* the nested blocks of test_local_scope: hh and ww are created in the outer
\* block, hhh in the inner one; the inner block is left and hhh is gone
\* while hh and ww are there
C17_Witness ==
    /\ C17_Case
    /\ steps = 6 /\ ScopeDepth(steps) = 1
    /\ history[1].op = "local_scope_enter"
    /\ DOMAIN history[2].data = {"hh"}
    /\ DOMAIN history[3].data = {"ww"}
    /\ history[4].op = "local_scope_enter"
    /\ DOMAIN history[5].data = {"hhh"}
    /\ KeysNow(objs[1].nf[0]) = {"h", "hh"}
    /\ KeysNow(objs[1].ef[0]) = {"w", "ww"}

--------------------------------------------------------------------------
(***************************************************************************)
(* The forms of the edges argument of send_and_recv.                       *)
(***************************************************************************)
MaxForms == 2

\* on the graph 0->1, 1->2: the tuple (u, v) = ([0, 1], [1, 2]) and
\* ([0], [1]), the lists of edge ids [0], [0, 1] and [], and the list
\* [u, v] = [[0, 1], [1, 2]]
EdgeForms ==
    {Pairs({<<0, 1>>, <<1, 2>>}), Pairs({<<0, 1>>}),
     IdsOf({0}), IdsOf({0, 1}), Ids(EmptyMap),
     ListOfLists(<<0, 1>>, <<1, 2>>)}

InitForms == InitWith(Store(GraphChain, ZeroInitializer))

NextForms ==
    /\ steps < MaxForms
    /\ \E edges \in EdgeForms, mfn \in MessageFns, ra \in ReduceApply :
           SendAndRecv(edges, mfn, ra[1], ra[2], NoneArg)

SpecForms == InitForms /\ [][NextForms]_vars

--------------------------------------------------------------------------
IsSendAndRecv == steps >= 1 /\ last.op = "send_and_recv"

\* the edges argument is a tuple (u, v) or one list of edge ids
PairOrIds == last.sel.tuple \/ "lists" \notin DOMAIN last.sel

\* C19: send_and_recv takes its edges as a pair (u, v) or as one array of
\* edge ids; another form, such as the list [u, v] of two lists of ids, is
\* rejected with an error and nothing is run: no user function is invoked
\* and no feature or message changes.
C19_Case == IsSendAndRecv /\ ~PairOrIds

C19_EdgeForms ==
    /\ C19_Case =>
           /\ last.err = ErrIndexData
           /\ calls = <<>>
           /\ tensors = pre.T /\ frames = pre.F /\ objs = pre.O
    /\ (IsSendAndRecv /\ PairOrIds) =>
           /\ last.err = ""
           /\ LastEdges # {} => Reduced = DstNodes(objs[1].g, 0, LastEdges)

\* send_and_recv((u, v), ...) ran and then send_and_recv([u, v], ...) with
\* the same u and v is rejected
C19_Witness ==
    /\ steps = 2
    /\ C19_Case
    /\ PrevCall.op = "send_and_recv" /\ PrevCall.sel = Pairs({<<0, 1>>, <<1, 2>>})
    /\ PrevCall.err = ""
    /\ last.sel = ListOfLists(<<0, 1>>, <<1, 2>>)
    /\ last.err = ErrIndexData

--------------------------------------------------------------------------
PopNodes == steps >= 1 /\ last.op = "pop_n_repr"
PopEdges == steps >= 1 /\ last.op = "pop_e_repr"

\* the frame a call on the node (edge) features works on
FeatFrame(op) == IF op \in {"pop_n_repr", "set_n_repr"} THEN objs[1].nf[0] ELSE objs[1].ef[0]

\* the last call sets, over ALL rows, the field the call before it popped
\* from the same frame
SetAfterPop ==
    /\ steps >= 2
    /\ PrevCall.op \in {"pop_n_repr", "pop_e_repr"}
    /\ last.op = (IF PrevCall.op = "pop_n_repr" THEN "set_n_repr" ELSE "set_e_repr")
    /\ is_all(last.sel)
    /\ PrevCall.data \in DOMAIN last.data
    /\ WrongFields = {}

\* C18: pop(field) on the node features and on the edge features returns
\* the column stored under the field and removes the field: the frame has
\* one field less, and a later set of the whole column of the same field
\* succeeds.
C18_PopReturnsColumn ==
    /\ (PopNodes \/ PopEdges) =>
           LET fid == FeatFrame(last.op)
               key == last.data
           IN  /\ last.ret = [none |-> FALSE, val |-> pre.T[pre.F[fid].cols[key]]]
               /\ DOMAIN frames[fid].cols = DOMAIN pre.F[fid].cols \ {key}
               /\ Cardinality(DOMAIN frames[fid].cols)
                      = Cardinality(DOMAIN pre.F[fid].cols) - 1
    /\ SetAfterPop =>
           /\ last.err = ""
           /\ Col(World, FeatFrame(last.op), PrevCall.data) = last.data[PrevCall.data]

--------------------------------------------------------------------------
(***************************************************************************)
(* The reducers of the backend: CopyReduce.forward and                     *)
(* BinaryReduce.forward.  A tensor element is a fraction <<n, d>> in       *)
(* lowest terms; <<n, 0>> stands for the result of a division by zero.     *)
(***************************************************************************)
MaxVal == 2
MaxCalls == 1

RECURSIVE GCD(_, _)
GCD(a, b) == IF b = 0 THEN a ELSE GCD(b, a % b)

\* x / d of two whole numbers, x >= 0
TrueDiv(x, d) ==
    IF d = 0 THEN <<x, 0>>
    ELSE LET k == GCD(x, d) IN <<x \div k, d \div k>>

\* tensor.clamp(min=lo)
Clamp(x, lo) == IF x < lo THEN lo ELSE x

\* the row of data an edge reads for a target: the row of its source, of
\* its destination, or its own
EdgeOperand(graph, target, data, e) ==
    data[CASE target = "src" -> graph[e][1]
           [] target = "dst" -> graph[e][2]
           [] target = "edge" -> e]

\* the kernels reduce, per output row, over the edges that enter it; a row
\* no edge enters is zero
ReduceVals(reducer, box, val) ==
    IF box = {} THEN 0
    ELSE CASE reducer = "sum" -> SumOver(box, val)
           [] reducer = "max" -> MaxOver(box, val)

KCopyReduce(reducer, graph, target, in_data, out_size) ==
    [v \in Rows(out_size) |->
        ReduceVals(reducer, {e \in DOMAIN graph : graph[e][2] = v},
                   [e \in DOMAIN graph |-> EdgeOperand(graph, target, in_data, e)])]

BinaryOp(binary_op, a, b) ==
    CASE binary_op = "add" -> a + b
      [] binary_op = "mul" -> a * b

KBinaryOpReduce(reducer, binary_op, graph, lhs, rhs, lhs_data, rhs_data, out_size) ==
    [v \in Rows(out_size) |->
        ReduceVals(reducer, {e \in DOMAIN graph : graph[e][2] = v},
                   [e \in DOMAIN graph |->
                       BinaryOp(binary_op, EdgeOperand(graph, lhs, lhs_data, e),
                                EdgeOperand(graph, rhs, rhs_data, e))])]

\* the normalisation of the mean reducer: the degrees are the sum of ones
\* over the same edges, clamped from below by 1
MeanOf(out_data, graph, target, n, out_size) ==
    LET in_ones == [r \in Rows(n) |-> 1]
        degs == KCopyReduce("sum", graph, target, in_ones, out_size)
    IN  [v \in Rows(out_size) |-> TrueDiv(out_data[v], Clamp(degs[v], 1))]

\* the normalisation without the clamp
MeanOfUnclamped(out_data, graph, target, n, out_size) ==
    LET in_ones == [r \in Rows(n) |-> 1]
        degs == KCopyReduce("sum", graph, target, in_ones, out_size)
    IN  [v \in Rows(out_size) |-> TrueDiv(out_data[v], degs[v])]

CopyReduceForwardUnclamped(reducer, graph, target, in_data, out_size) ==
    LET out_data == KCopyReduce(IF reducer # "mean" THEN reducer ELSE "sum",
                                graph, target, in_data, out_size)
    IN  IF reducer = "mean"
        THEN MeanOfUnclamped(out_data, graph, target, Size(in_data), out_size)
        ELSE [v \in Rows(out_size) |-> TrueDiv(out_data[v], 1)]

\* CopyReduce.forward
CopyReduceForward(reducer, graph, target, in_data, out_size) ==
    LET out_data == KCopyReduce(IF reducer # "mean" THEN reducer ELSE "sum",
                                graph, target, in_data, out_size)
    IN  IF reducer = "mean"
        THEN MeanOf(out_data, graph, target, Size(in_data), out_size)
        ELSE [v \in Rows(out_size) |-> TrueDiv(out_data[v], 1)]

\* BinaryReduce.forward: the degrees are counted on lhs unless lhs is the
\* destination
BinaryReduceForward(reducer, binary_op, graph, lhs, rhs, lhs_data, rhs_data, out_size) ==
    LET out_data == KBinaryOpReduce(IF reducer # "mean" THEN reducer ELSE "sum",
                                    binary_op, graph, lhs, rhs, lhs_data, rhs_data,
                                    out_size)
    IN  IF reducer = "mean"
        THEN IF lhs # "dst"
             THEN MeanOf(out_data, graph, lhs, Size(lhs_data), out_size)
             ELSE MeanOf(out_data, graph, rhs, Size(rhs_data), out_size)
        ELSE [v \in Rows(out_size) |-> TrueDiv(out_data[v], 1)]

\* the graph with g.ndata['h'] = hcol and g.edata['w'] = wcol
ReduceStore(g, hcol, wcol) ==
    _set_e_repr(_set_n_repr(NewStore(EmptyWorld, g), 1, 0, ALL, ("h" :> hcol), FALSE),
                1, 0, ALL, ("w" :> wcol), FALSE)

\* the columns of the edge feature: all ones, or 1, 2, ... in turn
WColumns(g) ==
    {[e \in AllEdges(g, 0) |-> 1], [e \in AllEdges(g, 0) |-> (e % MaxVal) + 1]}

\* the data of a target: the node feature h, or the edge feature w
TargetData(target) ==
    IF target = "edge" THEN EdgeNow(0)["w"] ELSE NodeNow(0)["h"]

ReduceCall(op, reducer, binary_op, lhs, rhs, ret) ==
    [reducer |-> reducer, binary_op |-> binary_op, lhs |-> lhs, rhs |-> rhs]
        @@ [Call(op, 1, ALL, NoneArg, NoMsgFn, NoReduceFn, NoFn, FALSE) EXCEPT !.ret = ret]

\* copy_reduce(reducer, graph, target, in_data, out_size)
CopyReduce(reducer, target) ==
    LET g == objs[1].g IN
    /\ Step(ReduceCall("copy_reduce", reducer, "", target, "",
                       CopyReduceForward(reducer, g.edges[0], target, TargetData(target),
                                         number_of_nodes(g, 0))),
            World)
    /\ UNCHANGED scopes

\* binary_reduce(reducer, binary_op, graph, lhs, rhs, lhs_data, rhs_data, out_size)
BinaryReduce(reducer, binary_op, lhs, rhs) ==
    LET g == objs[1].g IN
    /\ Step(ReduceCall("binary_reduce", reducer, binary_op, lhs, rhs,
                       BinaryReduceForward(reducer, binary_op, g.edges[0], lhs, rhs,
                                           TargetData(lhs), TargetData(rhs),
                                           number_of_nodes(g, 0))),
            World)
    /\ UNCHANGED scopes

Reducers == {"sum", "mean", "max"}
BinaryOps == {"add", "mul"}
BinaryTargets == {<<"src", "edge">>, <<"src", "dst">>, <<"dst", "src">>, <<"edge", "dst">>}

InitReduce ==
    \E g \in {Graph01, GraphMulti, GraphNoEdge} :
        \E hcol \in [AllNodes(g, 0) -> 0..MaxVal], wcol \in WColumns(g) :
            InitWith(ReduceStore(g, hcol, wcol))

NextReduce ==
    \/ /\ steps < MaxCalls
       /\ \E reducer \in Reducers, target \in {"src", "edge"} : CopyReduce(reducer, target)
    \/ /\ steps < MaxCalls
       /\ \E reducer \in Reducers, binary_op \in BinaryOps, t \in BinaryTargets :
              BinaryReduce(reducer, binary_op, t[1], t[2])

SpecReduce == InitReduce /\ [][NextReduce]_vars

--------------------------------------------------------------------------
\* the output of the last call's inputs under another reducer
OutputWith(reducer) ==
    LET g == objs[1].g IN
    IF last.op = "copy_reduce"
    THEN CopyReduceForward(reducer, g.edges[0], last.lhs, TargetData(last.lhs),
                           number_of_nodes(g, 0))
    ELSE BinaryReduceForward(reducer, last.binary_op, g.edges[0], last.lhs, last.rhs,
                             TargetData(last.lhs), TargetData(last.rhs),
                             number_of_nodes(g, 0))

\* the number of edges that enter node v
InDegreeOf(v) ==
    Cardinality({e \in DOMAIN objs[1].g.edges[0] : objs[1].g.edges[0][e][2] = v})

\* C20: for copy_reduce and binary_reduce the output under 'mean' is, row
\* by row, the output under 'sum' divided by the in-degree of the
\* destination, with 1 in place of an in-degree below 1: a destination of
\* in-degree 0 has the same output under 'mean' as under 'sum'.
C20_Case ==
    /\ steps >= 1
    /\ last.op \in {"copy_reduce", "binary_reduce"}
    /\ last.reducer = "mean"

C20_MeanIsSumOverDegree ==
    C20_Case =>
        \A v \in AllNodes(objs[1].g, 0) :
            LET s == OutputWith("sum")[v] IN
            /\ s[2] = 1
            /\ IF InDegreeOf(v) = 0 THEN last.ret[v] = s
               ELSE last.ret[v] = TrueDiv(s[1], InDegreeOf(v))

\* on the graph with the edges (0,1) three times and (2,1), the mean of the
\* source feature: node 1 of in-degree 4 holds a quarter of the sum, not a
\* whole number, and node 0 of in-degree 0 holds the zero of the sum
C20_Witness ==
    /\ C20_Case
    /\ last.op = "copy_reduce" /\ last.lhs = "src"
    /\ objs[1].g = GraphMulti
    /\ InDegreeOf(1) = 4 /\ InDegreeOf(0) = 0
    /\ OutputWith("sum")[1] = <<5, 1>>
    /\ last.ret[1] = <<5, 4>>
    /\ last.ret[0] = <<0, 1>>

--------------------------------------------------------------------------
(***************************************************************************)
(* Relation slices: g[srctype, etype, dsttype].  One matching relation     *)
(* gives a Store over the parent's frame objects; several give a flattened *)
(* Store over new frames that hold the common columns.  A feature row is a *)
(* vector here, and the scheme of a column is the length of its rows.      *)
(***************************************************************************)
SLICE_FULL == ":"
ErrSlice == "Invalid slice syntax"
ErrConcat == "Cannot concatenate column"
NTYPE == "_TYPE"
NID == "_ID"
ETYPE == "_TYPE"
EID == "_ID"

\* g[key] with a bare name is g[:, key, :]
SliceKey(key) ==
    IF key.kind = "str" THEN <<SLICE_FULL, key.name, SLICE_FULL>> ELSE key.triple

\* the ids of the canonical edge types the key matches, ascending
_find_etypes(g, key) ==
    ListOf({i \in DOMAIN canonical_etypes(g) :
               /\ key[1] = SLICE_FULL \/ key[1] = canonical_etypes(g)[i][1]
               /\ key[2] = SLICE_FULL \/ key[2] = canonical_etypes(g)[i][2]
               /\ key[3] = SLICE_FULL \/ key[3] = canonical_etypes(g)[i][3]})

\* _graph.get_relation_graph(etid) under the names __getitem__ gives it:
\* the relation alone, over its one or two node types
get_relation_graph(g, etid) ==
    LET stid == find_edge(g, etid)[1]
        dtid == find_edge(g, etid)[2]
    IN  IF stid = dtid
        THEN GraphIndex(<<g.ntypes[stid]>>, <<g.etypes[etid]>>, << <<0, 0>> >>,
                        <<g.nnodes[stid]>>, <<g.edges[etid]>>)
        ELSE GraphIndex(<<g.ntypes[stid], g.ntypes[dtid]>>, <<g.etypes[etid]>>,
                        << <<0, 1>> >>, <<g.nnodes[stid], g.nnodes[dtid]>>,
                        <<g.edges[etid]>>)

\* the branch of one match over copies of the parent's frames
relation_slice_copied(W, o, etid) ==
    LET obj == W.O[o]
        stid == find_edge(obj.g, etid)[1]
        dtid == find_edge(obj.g, etid)[2]
        nn == IF stid = dtid THEN 1 ELSE 2
        base == Len(W.F)
        old == IF stid = dtid THEN <<obj.nf[stid], obj.ef[etid]>>
               ELSE <<obj.nf[stid], obj.nf[dtid], obj.ef[etid]>>
    IN  [W EXCEPT !.F = @ \o [i \in 1..(nn + 1) |-> FrameOver(W.F[old[i]])],
                  !.O = Append(@, HeteroGraphObject(get_relation_graph(obj.g, etid),
                                                     [i \in Rows(nn) |-> base + 1 + i],
                                                     ZSeq(<<base + nn + 1>>)))]

\* the branch of one match: the new Store is built on the parent's frames
relation_slice(W, o, etid) ==
    LET obj == W.O[o]
        stid == find_edge(obj.g, etid)[1]
        dtid == find_edge(obj.g, etid)[2]
        new_nframes == IF stid = dtid THEN ZSeq(<<obj.nf[stid]>>)
                       ELSE ZSeq(<<obj.nf[stid], obj.nf[dtid]>>)
        new_eframes == ZSeq(<<obj.ef[etid]>>)
    IN  [W EXCEPT !.O = Append(@, HeteroGraphObject(get_relation_graph(obj.g, etid),
                                                     new_nframes, new_eframes))]

\* sorted() on the names in use: the position of a name in lexicographic order
NameOrder ==
    <<"attracts", "developer", "follows", "game", "likes", "plays", "user">>

NameRank(name) == CHOOSE i \in DOMAIN NameOrder : NameOrder[i] = name

RECURSIVE SortedNames(_)
SortedNames(s) ==
    IF s = <<>> THEN <<>>
    ELSE LET i == CHOOSE i \in DOMAIN s :
                      \A j \in DOMAIN s : NameRank(s[i]) <= NameRank(s[j])
         IN  <<s[i]>> \o SortedNames(SubSeq(s, 1, i - 1) \o SubSeq(s, i + 1, Len(s)))

RECURSIVE JoinPlus(_)
JoinPlus(s) ==
    IF s = <<>> THEN ""
    ELSE IF Len(s) = 1 THEN s[1]
    ELSE s[1] \o "+" \o JoinPlus(Tail(s))

\* combine_names that joins the names in the order of the ids
combine_names_unsorted(names, ids) ==
    JoinPlus([i \in 1..Size(ids) |-> names[ids[i - 1]]])

\* combine_names(names, ids): '+'.join(sorted([names[i] for i in ids]))
combine_names(names, ids) ==
    JoinPlus(SortedNames([i \in 1..Size(ids) |-> names[ids[i - 1]]]))

\* frame.schemes[key]: the shape of a row of the column
Scheme(W, fid, key) ==
    LET col == Col(W, fid, key) IN
    IF DOMAIN col = {} THEN 0 ELSE Len(col[CHOOSE r \in DOMAIN col : TRUE])

\* the loop of combine_frames from the i-th id on: a key of schemes that the
\* frame holds under another scheme is an error, a key it lacks is dropped
RECURSIVE CommonSchemes(_, _, _, _, _)
CommonSchemes(W, fids, ids, i, schemes) ==
    IF i = Size(ids) THEN Ok(schemes)
    ELSE LET fid == fids[ids[i]] IN
         IF \E k \in DOMAIN schemes :
                k \in Keys(W, fid) /\ Scheme(W, fid, k) # schemes[k]
         THEN Raise(ErrConcat)
         ELSE CommonSchemes(W, fids, ids, i + 1,
                            [k \in DOMAIN schemes \cap Keys(W, fid) |-> schemes[k]])

\* the rows of the frames ids put one after the other: where row n comes from
CatOffset(W, fids, ids, i) ==
    SumOver({j \in DOMAIN ids : j < i}, [j \in DOMAIN ids |-> W.F[fids[ids[j]]].nrows])

CatSize(W, fids, ids) == CatOffset(W, fids, ids, Size(ids))

CatSource(W, fids, ids, n) ==
    CHOOSE i \in DOMAIN ids :
        /\ CatOffset(W, fids, ids, i) <= n
        /\ n < CatOffset(W, fids, ids, i) + W.F[fids[ids[i]]].nrows

\* F.cat of the columns under key of the frames with rows
CatColumn(W, fids, ids, key) ==
    [n \in Rows(CatSize(W, fids, ids)) |->
        LET i == CatSource(W, fids, ids, n)
        IN  Col(W, fids[ids[i]], key)[n - CatOffset(W, fids, ids, i)]]

\* combine_frames(frames, ids): the common columns concatenated, None (no
\* column) when no key is common, an error when the schemes of a key differ
combine_frames(W, fids, ids) ==
    LET first == fids[ids[0]]
        common == CommonSchemes(W, fids, ids, 0,
                                [k \in Keys(W, first) |-> Scheme(W, first, k)])
    IN  IF ~common.ok THEN common
        ELSE Ok([k \in DOMAIN common.val |-> CatColumn(W, fids, ids, k)])

\* _graph.flatten_relations(etypes): the relations as one relation.  The
\* source and the destination node types are taken in ascending id; they
\* are one node type when the two sets are equal, two otherwise; nodes and
\* edges are numbered type after type, and each keeps its type and its id
flatten_relations(g, etypes) ==
    LET stids == ListOf({find_edge(g, etypes[i])[1] : i \in DOMAIN etypes})
        dtids == ListOf({find_edge(g, etypes[i])[2] : i \in DOMAIN etypes})
        noff(tids, t) == SumOver({s \in ToSet(tids) : s < t}, g.nnodes)
        ntot(tids) == SumOver(ToSet(tids), g.nnodes)
        ntype(tids) == [n \in Rows(ntot(tids)) |->
                           CHOOSE t \in ToSet(tids) :
                               noff(tids, t) <= n /\ n < noff(tids, t) + g.nnodes[t]]
        nid(tids) == [n \in Rows(ntot(tids)) |-> n - noff(tids, ntype(tids)[n])]
        ecount == [i \in DOMAIN etypes |-> number_of_edges(g, etypes[i])]
        eoff(i) == SumOver({j \in DOMAIN etypes : j < i}, ecount)
        etot == SumOver(DOMAIN etypes, ecount)
        epos == [e \in Rows(etot) |->
                    CHOOSE i \in DOMAIN etypes : eoff(i) <= e /\ e < eoff(i) + ecount[i]]
        eid == [e \in Rows(etot) |-> e - eoff(epos[e])]
        edge == [e \in Rows(etot) |->
                    LET t == etypes[epos[e]] IN
                    <<noff(stids, find_edge(g, t)[1]) + EdgeSrc(g, t, eid[e]),
                      noff(dtids, find_edge(g, t)[2]) + EdgeDst(g, t, eid[e])>>]
        homo == stids = dtids
    IN  [induced_srctype_set |-> stids, induced_dsttype_set |-> dtids,
         induced_etype_set |-> etypes,
         induced_srctype |-> ntype(stids), induced_srcid |-> nid(stids),
         induced_dsttype |-> ntype(dtids), induced_dstid |-> nid(dtids),
         induced_etype |-> [e \in Rows(etot) |-> etypes[epos[e]]],
         induced_eid |-> eid,
         nnodes |-> IF homo THEN <<ntot(stids)>> ELSE <<ntot(stids), ntot(dtids)>>,
         meta |-> IF homo THEN <<0, 0>> ELSE <<0, 1>>,
         edges |-> edge]

\* a new FrameRef(Frame(cols)), or the empty frame __init__ makes for None
NewFrame(W, nrows, data) ==
    SetColumns([W EXCEPT !.F = Append(@, Frame(nrows))], Len(W.F) + 1, data, DOMAIN data)

\* the branch of no or several matches: the flattened Store, tagged with the
\* type and the id each node and edge has in the parent
flattened_slice(W, o, etypes) ==
    IF Size(etypes) = 0 THEN Raised(W, ErrIndex)
    ELSE
    LET obj == W.O[o]
        g == obj.g
        flat == flatten_relations(g, etypes)
        stids == flat.induced_srctype_set
        dtids == flat.induced_dsttype_set
        etids == flat.induced_etype_set
        two == Len(flat.nnodes) = 2
        new_ntypes == IF two THEN <<combine_names(g.ntypes, stids),
                                    combine_names(g.ntypes, dtids)>>
                      ELSE <<combine_names(g.ntypes, stids)>>
        new_etypes == <<combine_names(g.etypes, etids)>>
        sfr == combine_frames(W, obj.nf, stids)
        dfr == combine_frames(W, obj.nf, dtids)
        efr == combine_frames(W, obj.ef, etids)
        new_g == GraphIndex(new_ntypes, new_etypes, <<flat.meta>>, flat.nnodes,
                            <<flat.edges>>)
        base == Len(W.F)
        nn == Len(flat.nnodes)
        W1 == NewFrame(W, flat.nnodes[1], sfr.val)
        W2 == IF two THEN NewFrame(W1, flat.nnodes[2], dfr.val) ELSE W1
        W3 == NewFrame(W2, Size(flat.edges), efr.val)
        W4 == [W3 EXCEPT !.O = Append(@, HeteroGraphObject(new_g,
                                             [i \in Rows(nn) |-> base + 1 + i],
                                             ZSeq(<<base + nn + 1>>)))]
        src == base + 1
        dst == base + nn
        W5 == SetColumn(SetColumn(W4, src, NTYPE, flat.induced_srctype),
                        src, NID, flat.induced_srcid)
        W6 == SetColumn(SetColumn(W5, dst, NTYPE, flat.induced_dsttype),
                        dst, NID, flat.induced_dstid)
    IN  IF ~sfr.ok THEN Raised(W, sfr.err)
        ELSE IF two /\ ~dfr.ok THEN Raised(W, dfr.err)
        ELSE IF ~efr.ok THEN Raised(W, efr.err)
        ELSE SetColumn(SetColumn(W6, base + nn + 1, ETYPE, flat.induced_etype),
                       base + nn + 1, EID, flat.induced_eid)

\* __getitem__(key)
getitem(W, o, key) ==
    IF Len(SliceKey(key)) # 3 THEN Raised(W, ErrSlice)
    ELSE LET etypes == _find_etypes(W.O[o].g, SliceKey(key)) IN
         IF Size(etypes) = 1 THEN relation_slice(W, o, etypes[0])
         ELSE flattened_slice(W, o, etypes)

--------------------------------------------------------------------------
(***************************************************************************)
(* Slices of a Store with three relations, and feature writes through the  *)
(* Store and through its slices.                                           *)
(***************************************************************************)
MaxSlice == 3

\* user-follows->user, user-plays->game, user-likes->user
GraphSlice ==
    GraphIndex(<<"user", "game">>,
               <<"follows", "plays", "likes">>,
               << <<0, 0>>, <<0, 1>>, <<0, 0>> >>,
               <<2, 1>>,
               << ZSeq(<< <<0, 1>> >>),
                  ZSeq(<< <<0, 0>>, <<1, 0>> >>),
                  ZSeq(<< <<1, 0>> >>) >>)

\* a column of n rows of shape (size,): row r holds (v + r, ..., v + r)
VecColumn(n, size, v) == [r \in Rows(n) |-> [i \in 1..size |-> v + r]]

\* the Store over GraphSlice: users hold h and x, games hold h with rows of
\* shape (gsize,); follows and likes hold w, plays holds w and y
SliceStore(gsize) ==
    LET g == GraphSlice
        W0 == NewStore(EmptyWorld, g)
        W1 == _set_n_repr(W0, 1, 0, ALL,
                          ("h" :> VecColumn(2, 1, 11)) @@ ("x" :> VecColumn(2, 1, 1)),
                          FALSE)
        W2 == _set_n_repr(W1, 1, 1, ALL, ("h" :> VecColumn(1, gsize, 21)), FALSE)
        W3 == _set_e_repr(W2, 1, 0, ALL, ("w" :> VecColumn(1, 1, 100)), FALSE)
        W4 == _set_e_repr(W3, 1, 1, ALL,
                          ("w" :> VecColumn(2, 1, 200)) @@ ("y" :> VecColumn(2, 1, 5)),
                          FALSE)
    IN  _set_e_repr(W4, 1, 2, ALL, ("w" :> VecColumn(1, 1, 300)), FALSE)

\* the keys of the slices: one relation over one node type, one relation
\* over two, two relations over one node type, three over two, none
SliceKeys ==
    {StrArg("follows"), StrArg("plays"),
     TupleArg(<<SLICE_FULL, SLICE_FULL, "user">>),
     TupleArg(<<"user", SLICE_FULL, SLICE_FULL>>),
     TupleArg(<<"game", SLICE_FULL, SLICE_FULL>>),
     TupleArg(<<"user", "plays">>)}

\* g[key] on object o; the call keeps the object made and the relations matched
Slice(o, key) ==
    \E Wn \in {getitem(World, o, key)} :
        /\ Step([Call("getitem", o, ALL, key, NoMsgFn, NoReduceFn, NoFn, FALSE)
                    EXCEPT !.ret = [obj |-> Len(objs) + 1,
                                    etids |-> IF Len(SliceKey(key)) = 3
                                              THEN _find_etypes(objs[o].g, SliceKey(key))
                                              ELSE EmptyMap]],
                Wn)
        /\ scopes' = IF Wn.E = "" THEN Append(scopes, <<>>) ELSE scopes

\* g.nodes[ntype].data[...] = ... and g.edges[etype].data[...] = ... on object o
SetNodeRepr(o, ntype, u, data, inplace) ==
    Step([Call("set_n_repr", o, u, StrArg(ntype), NoMsgFn, NoReduceFn, NoFn, inplace)
             EXCEPT !.data = data],
         _set_n_repr(World, o, get_ntype_id(objs[o].g, StrArg(ntype)).val, u, data,
                     inplace))
    /\ scopes' = InplaceSeen(inplace)

SetEdgeRepr(o, etype, eid, data, inplace) ==
    Step([Call("set_e_repr", o, eid, StrArg(etype), NoMsgFn, NoReduceFn, NoFn, inplace)
             EXCEPT !.data = data],
         _set_e_repr(World, o, get_etype_id(objs[o].g, StrArg(etype)).val, eid, data,
                     inplace))
    /\ scopes' = InplaceSeen(inplace)

\* <<rows, field, inplace>> of the writes
SliceNodeWrites == {<<ALL, "z", FALSE>>, <<IdsOf({0}), "h", FALSE>>, <<IdsOf({0}), "h", TRUE>>}
SliceEdgeWrites == {<<ALL, "v", FALSE>>, <<IdsOf({0}), "w", TRUE>>}

SliceData(u, key, n) == (key :> VecColumn(NumTargets(u, n), 1, 7))

InitSlice == \E gsize \in {1, 2} : InitWith(SliceStore(gsize))

NextSlice ==
    \/ /\ steps < MaxSlice
       /\ \E key \in SliceKeys : Slice(1, key)
    \/ /\ steps < MaxSlice
       /\ \E o \in DOMAIN objs :
              \E t \in DOMAIN objs[o].g.ntypes, w \in SliceNodeWrites :
                  SetNodeRepr(o, objs[o].g.ntypes[t], w[1],
                              SliceData(w[1], w[2], number_of_nodes(objs[o].g, t)), w[3])
    \/ /\ steps < MaxSlice
       /\ \E o \in DOMAIN objs :
              \E t \in DOMAIN objs[o].g.etypes, w \in SliceEdgeWrites :
                  SetEdgeRepr(o, objs[o].g.etypes[t], w[1],
                              SliceData(w[1], w[2], number_of_edges(objs[o].g, t)), w[3])

SpecSlice == InitSlice /\ [][NextSlice]_vars

--------------------------------------------------------------------------
\* the calls so far that made a slice of one relation
RelationSlices ==
    {i \in 1..steps : /\ history[i].op = "getitem"
                      /\ history[i].err = ""
                      /\ Size(history[i].ret.etids) = 1}

\* the data read through object o under a node type name / an edge type id
NodeView(o, ntype) ==
    FrameData(World, objs[o].nf[get_ntype_id(objs[o].g, StrArg(ntype)).val])
EdgeView(o, etid) == FrameData(World, objs[o].ef[etid])

\* the rows the last set wrote, and the value it gave to row r of field key
WrittenRows(n) == IF is_all(last.sel) THEN Rows(n) ELSE ToSet(last.sel.ids)
WrittenValue(key, r) ==
    IF is_all(last.sel) THEN last.data[key][r]
    ELSE last.data[key][CHOOSE i \in DOMAIN last.sel.ids : last.sel.ids[i] = r]

\* the last call wrote node type ntype / relation etype through object o
WroteNodes(o, ntype) ==
    /\ last.op = "set_n_repr" /\ last.err = "" /\ last.o = o
    /\ last.etype.name = ntype
WroteEdges(o, etype) ==
    /\ last.op = "set_e_repr" /\ last.err = "" /\ last.o = o
    /\ last.etype.name = etype

\* the view holds what the last set wrote
HoldsWritten(view) ==
    \A key \in DOMAIN last.data :
        /\ key \in DOMAIN view
        /\ \A r \in WrittenRows(Size(view[key])) : view[key][r] = WrittenValue(key, r)

\* C21: a slice that matches one canonical edge type is a Store over the
\* parent's frames: at all times the slice and the parent read the same
\* node and edge data for the relation and its node types, and what a set
\* writes through the one is read through the other.
C21_SliceSharesFrames ==
    \A i \in RelationSlices :
        LET s == history[i].ret.obj
            p == history[i].o
            etid == history[i].ret.etids[0]
            etype == objs[p].g.etypes[etid]
        IN  /\ \A t \in DOMAIN objs[s].g.ntypes :
                   LET ntype == objs[s].g.ntypes[t] IN
                   /\ NodeView(s, ntype) = NodeView(p, ntype)
                   /\ WroteNodes(s, ntype) => HoldsWritten(NodeView(p, ntype))
                   /\ WroteNodes(p, ntype) => HoldsWritten(NodeView(s, ntype))
            /\ EdgeView(s, 0) = EdgeView(p, etid)
            /\ WroteEdges(s, etype) => HoldsWritten(EdgeView(p, etid))
            /\ WroteEdges(p, etype) => HoldsWritten(EdgeView(s, 0))

\* a slice of user-plays->game was taken, field z was then written through
\* the slice on the games and is read in the parent, and the parent then
\* wrote row 0 of w of the relation, which is read in the slice
C21_Witness ==
    /\ steps = 3
    /\ history[1].op = "getitem" /\ history[1].etype = StrArg("plays")
    /\ history[1].err = "" /\ 1 \in RelationSlices
    /\ history[2].op = "set_n_repr" /\ history[2].o = 2 /\ history[2].etype.name = "game"
    /\ "z" \in DOMAIN history[2].data
    /\ NodeView(1, "game")["z"][0] = <<7>>
    /\ WroteEdges(1, "plays") /\ last.inplace
    /\ EdgeView(2, 0)["w"][0] = <<7>>
    /\ EdgeView(2, 0)["w"][1] = <<201>>

--------------------------------------------------------------------------
(***************************************************************************)
(* prop_nodes and prop_edges: a generator of frontiers is a list of node   *)
(* or edge lists.                                                          *)
(***************************************************************************)
\* prop_nodes that pulls once, on the nodes of every frontier together
prop_nodes_one_pull(W, o, nodes_generator, i, message_func, reduce_func, apply_node_func, etype) ==
    pull(W, o, IdsOf(UNION {ToSet(nodes_generator[j].ids) : j \in i..Len(nodes_generator)}),
         message_func, reduce_func, apply_node_func, etype, FALSE)

\* the loop of prop_nodes from the i-th frontier on: one pull per frontier;
\* an exception ends the loop
RECURSIVE prop_nodes(_, _, _, _, _, _, _, _)
prop_nodes(W, o, nodes_generator, i, message_func, reduce_func, apply_node_func, etype) ==
    IF i > Len(nodes_generator) \/ W.E # "" THEN W
    ELSE prop_nodes(pull(W, o, nodes_generator[i], message_func, reduce_func,
                         apply_node_func, etype, FALSE),
                    o, nodes_generator, i + 1, message_func, reduce_func,
                    apply_node_func, etype)

\* the loop of prop_edges from the i-th frontier on
RECURSIVE prop_edges(_, _, _, _, _, _, _, _)
prop_edges(W, o, edges_generator, i, message_func, reduce_func, apply_node_func, etype) ==
    IF i > Len(edges_generator) \/ W.E # "" THEN W
    ELSE prop_edges(send_and_recv(W, o, edges_generator[i], message_func, reduce_func,
                                  apply_node_func, etype, FALSE),
                    o, edges_generator, i + 1, message_func, reduce_func,
                    apply_node_func, etype)

MaxProp == 2

PropNodes(nodes_generator, mfn, rf, af, etype) ==
    \E Wn \in {prop_nodes(World, 1, nodes_generator, 1, mfn, rf, af, etype)} :
        /\ Step([Call("prop_nodes", 1, ALL, etype, mfn, rf, af, FALSE)
                    EXCEPT !.data = nodes_generator], Wn)
        /\ UNCHANGED scopes

PropEdges(edges_generator, mfn, rf, af, etype) ==
    \E Wn \in {prop_edges(World, 1, edges_generator, 1, mfn, rf, af, etype)} :
        /\ Step([Call("prop_edges", 1, ALL, etype, mfn, rf, af, FALSE)
                    EXCEPT !.data = edges_generator], Wn)
        /\ UNCHANGED scopes

\* the generators: no frontier, one, two in either order, one twice
Generators(S) ==
    {<<>>} \cup {<<IdsOf(S)>>}
        \cup {<<IdsOf({a}), IdsOf({b})>> : a \in S, b \in S}
        \cup {<<IdsOf(S), IdsOf({a})>> : a \in S}

PropFns == {<<reduce_sum_h, NoFn>>, <<reduce_add_h, apply_double>>}

InitProp == InitWith(Store(GraphChain, ZeroInitializer))

NextProp ==
    \/ /\ steps < MaxProp
       /\ \E gen \in Generators({1, 2}), ra \in PropFns :
              PropNodes(gen, copy_src_h, ra[1], ra[2], NoneArg)
    \/ /\ steps < MaxProp
       /\ \E gen \in Generators({0, 1}), ra \in PropFns :
              PropEdges(gen, copy_src_h, ra[1], ra[2], NoneArg)
    \/ /\ steps < MaxProp
       /\ \E v \in {IdsOf({1}), IdsOf({2})}, ra \in PropFns :
              Pull(v, copy_src_h, ra[1], ra[2], NoneArg)
    \/ /\ steps < MaxProp
       /\ \E edges \in {IdsOf({0}), IdsOf({1})}, ra \in PropFns :
              SendAndRecv(edges, copy_src_h, ra[1], ra[2], NoneArg)

SpecProp == InitProp /\ [][NextProp]_vars

\* the calls of a script issued one after the other on W, the last one
\* last; a call is issued only if none before it raised
RECURSIVE PullsInTurn(_, _, _, _, _, _)
PullsInTurn(W, gen, mfn, rf, af, etype) ==
    IF gen = <<>> THEN W
    ELSE LET before == PullsInTurn(W, SubSeq(gen, 1, Len(gen) - 1), mfn, rf, af, etype)
         IN  IF before.E # "" THEN before
             ELSE pull(before, 1, gen[Len(gen)], mfn, rf, af, etype, FALSE)

RECURSIVE SendAndRecvsInTurn(_, _, _, _, _, _)
SendAndRecvsInTurn(W, gen, mfn, rf, af, etype) ==
    IF gen = <<>> THEN W
    ELSE LET before == SendAndRecvsInTurn(W, SubSeq(gen, 1, Len(gen) - 1), mfn, rf, af, etype)
         IN  IF before.E # "" THEN before
             ELSE send_and_recv(before, 1, gen[Len(gen)], mfn, rf, af, etype, FALSE)

\* the state and the log of UDF invocations are those W holds
StateIs(W) ==
    /\ tensors = W.T /\ frames = W.F /\ objs = W.O
    /\ calls = W.L /\ last.err = W.E

\* C22: prop_nodes leaves the state, and the sequence of UDF invocations,
\* that pull on the first frontier, then pull on the second, and so on, one
\* call after the other, leave; prop_edges likewise with send_and_recv.
C22_OneCallPerFrontier ==
    /\ last.op = "prop_nodes" =>
           StateIs(PullsInTurn(PreWorld, last.data, last.mfn, last.rf, last.af, last.etype))
    /\ last.op = "prop_edges" =>
           StateIs(SendAndRecvsInTurn(PreWorld, last.data, last.mfn, last.rf, last.af,
                                      last.etype))

\* on 0->1->2 with h = (1, 2, 3): prop_nodes over the frontiers [1], [2]
\* carries h of node 0 to node 1 and then on to node 2, in two reductions
C22_Witness ==
    /\ steps = 1
    /\ last.op = "prop_nodes" /\ last.err = ""
    /\ last.data = <<IdsOf({1}), IdsOf({2})>>
    /\ last.rf = reduce_sum_h /\ last.af.none
    /\ NodeNow(0)["h"] = ZSeq(<<1, 1, 1>>)
    /\ Len(SelectSeq(calls, LAMBDA c : c.fn = "reduce")) = 2

--------------------------------------------------------------------------
(***************************************************************************)
(* The two ways a with g.local_scope() block is left: its body completes,  *)
(* or its body raises.                                                     *)
(***************************************************************************)
MaxLeave == 4

ErrBody == "exception raised in the body"

\* local_scope when the body raises: contextmanager throws the exception
\* into the generator at the yield, which is not inside a try statement, so
\* the generator ends there and the two assignments after the yield are
\* not executed; the exception goes on to the caller
local_scope_throw(W, o, old_nframes, old_eframes) == Raised(W, ErrBody)

\* with g.local_scope(): the body raises
RaiseInLocalScope(o) ==
    /\ scopes[o] # <<>>
    /\ LET top == scopes[o][Len(scopes[o])] IN
       /\ Step([Call("local_scope_raise", o, ALL, NoneArg, NoMsgFn, NoReduceFn, NoFn, FALSE)
                   EXCEPT !.ret = top],
               local_scope_throw(World, o, top.old_nframes, top.old_eframes))
       /\ scopes' = [scopes EXCEPT ![o] = SubSeq(@, 1, Len(@) - 1)]

InitLeave == InitWith(Store(Graph01, ZeroInitializer))

\* one block at a time; the body sets node and edge fields, new ones (hh,
\* ww) and the ones the Store holds (h, w)
NextLeave ==
    \/ /\ steps < MaxLeave
       /\ scopes[1] = <<>>
       /\ EnterLocalScope(1)
    \/ /\ steps < MaxLeave
       /\ ExitLocalScope(1)
    \/ /\ steps < MaxLeave
       /\ RaiseInLocalScope(1)
    \/ /\ steps < MaxLeave
       /\ \E key \in {"h", "hh"} :
              SetNRepr(1, ALL, NewColumn(key, number_of_nodes(objs[1].g, 0)), FALSE)
    \/ /\ steps < MaxLeave
       /\ \E key \in {"w", "ww"} :
              SetERepr(1, ALL, NewColumn(key, number_of_edges(objs[1].g, 0)), FALSE)

SpecLeave == InitLeave /\ [][NextLeave]_vars

\* the frames of object 1 are the frames entry holds, with the columns
\* they had bound then
FramesAsAtEntry(entry) ==
    /\ objs[1].nf = entry.old_nframes
    /\ objs[1].ef = entry.old_eframes
    /\ \A fid \in FramesOf(objs, 1) :
           FrameView(tensors, frames, fid) = FrameView(entry.T, entry.F, fid)

\* C23: when a local_scope block has been left, by the end of its body or
\* by an exception raised in its body, the node and edge frames of the
\* Store are the frames bound before the block was entered, with the
\* columns they had.
C23_LeftScopeRestoresFrames ==
    (steps >= 1 /\ last.op \in {"local_scope_exit", "local_scope_raise"}) =>
        FramesAsAtEntry(last.ret)

\* the part of C23 about a body that completes
C23_CompletedScopeRestoresFrames ==
    (steps >= 1 /\ last.op = "local_scope_exit") => FramesAsAtEntry(last.ret)

\* a block was entered, set the new node field hh and was left by an
\* exception: the Store still holds hh
C23_LeakAfterException ==
    /\ steps = 3
    /\ history[1].op = "local_scope_enter"
    /\ history[2].op = "set_n_repr" /\ DOMAIN history[2].data = {"hh"}
    /\ last.op = "local_scope_raise"
    /\ "hh" \in KeysNow(objs[1].nf[0])
    /\ objs[1].nf # last.ret.old_nframes

--------------------------------------------------------------------------
\* the node data of every node type of object 1 in W
NodeFramesOf(W) == [t \in DOMAIN W.O[1].nf |-> FrameData(W, W.O[1].nf[t])]

\* send_and_recv over every edge of the relation of the last call, with the
\* functions of the last call, from the state before it
SendAndRecvOverAll ==
    send_and_recv(PreWorld, 1, IdsOf(AllEdges(objs[1].g, LastEtid)),
                  last.mfn, last.rf, last.af, last.etype, FALSE)

C24_Case == steps >= 1 /\ last.op = "update_all" /\ last.err = ""

\* every node of the destination type has an edge coming in
EveryNodeReceives ==
    \A v \in AllNodes(objs[1].g, LastDtid) : in_edges(objs[1].g, LastEtid, {v}) # {}

NoEdges == number_of_edges(objs[1].g, LastEtid) = 0

--------------------------------------------------------------------------
(***************************************************************************)
(* Feature sets, pops and message passing in one run.                      *)
(***************************************************************************)
MaxRows == 2

InitRows == InitWith(Store(GraphChain, ZeroInitializer))

\* the sets are those of SpecFeat, some with a row too many; the fields
\* popped are fields no function of the calls reads
NextRows ==
    \/ /\ steps < MaxRows
       /\ \E t \in FeatTargets :
              \E data \in FeatDicts({"h", "x"},
                                    NumTargets(t[1], number_of_nodes(objs[1].g, 0))) :
                  SetNRepr(1, t[1], data, t[2])
    \/ /\ steps < MaxRows
       /\ \E t \in FeatTargets :
              \E data \in FeatDicts({"w", "y"},
                                    NumTargets(t[1], number_of_edges(objs[1].g, 0))) :
                  SetERepr(1, t[1], data, t[2])
    \/ /\ steps < MaxRows
       /\ \E key \in Keys(World, objs[1].nf[0]) \ {"h"} : PopNRepr(1, key)
    \/ /\ steps < MaxRows
       /\ \E key \in Keys(World, objs[1].ef[0]) \ {"w"} : PopERepr(1, key)
    \/ /\ steps < MaxRows
       /\ \E edges \in {ALL, IdsOf({0})} : Send(edges, copy_src_h, NoneArg)
    \/ /\ steps < MaxRows
       /\ \E v \in {ALL, IdsOf({1})}, ra \in {<<reduce_accum, NoFn>>, <<reduce_add_h, apply_double>>} :
              Recv(v, ra[1], ra[2], NoneArg)
    \/ /\ steps < MaxRows
       /\ \E ra \in {<<reduce_accum, NoFn>>, <<reduce_add_h, apply_double>>} :
              SendAndRecv(IdsOf({1}), copy_src_h, ra[1], ra[2], NoneArg)
    \/ /\ steps < MaxRows
       /\ \E v \in {IdsOf({0}), IdsOf({2})} : Pull(v, copy_src_h, reduce_accum, NoFn, NoneArg)
    \/ /\ steps < MaxRows
       /\ \E ra \in {<<reduce_accum, NoFn>>, <<reduce_add_h, apply_double>>} :
              UpdateAll(copy_src_h, ra[1], ra[2], NoneArg)
    \/ /\ steps < MaxRows
       /\ \E v \in {ALL, IdsOf({0})} : ApplyNodes(1, v, apply_new, NoneArg, FALSE)
    \/ /\ steps < MaxRows
       /\ \E edges \in {ALL, IdsOf({0})} : ApplyEdges(1, edges, edge_double, NoneArg, FALSE)

SpecRows == InitRows /\ [][NextRows]_vars

\* every column of frame fid has exactly the rows 0 .. n-1
ColumnsHaveRows(fid, n) ==
    /\ frames[fid].nrows = n
    /\ \A key \in Keys(World, fid) : DOMAIN Col(World, fid, key) = Rows(n)

\* C25: at every point of a run of feature sets (of every row or of some,
\* accepted or refused), pops and message-passing calls, every column of a
\* node frame has as many rows as the node type has nodes and every column
\* of an edge frame as many as the relation has edges.
C25_RowCounts ==
    \A o \in DOMAIN objs :
        /\ \A t \in DOMAIN objs[o].nf :
               ColumnsHaveRows(objs[o].nf[t], number_of_nodes(objs[o].g, t))
        /\ \A t \in DOMAIN objs[o].ef :
               ColumnsHaveRows(objs[o].ef[t], number_of_edges(objs[o].g, t))

\* a set of rows 0 and 1 of the new node field x was accepted and backed
\* the third row, then a set of every row with one row too many was refused
C25_Witness ==
    /\ steps = 2
    /\ history[1].op = "set_n_repr" /\ history[1].err = ""
    /\ history[1].sel = IdsOf({0, 1}) /\ DOMAIN history[1].data = {"x"}
    /\ last.op = "set_n_repr" /\ last.err = ErrShape /\ is_all(last.sel)
    /\ NodeNow(0)["x"] = ZSeq(<<7, 7, 0>>)
    /\ C25_RowCounts

\* a set that created the edge field y was followed by update_all, whose
\* reduce function created the node field accum
C25_AfterMessagePassing ==
    /\ steps = 2
    /\ history[1].op = "set_e_repr" /\ history[1].err = "" /\ "y" \in DOMAIN history[1].data
    /\ last.op = "update_all" /\ last.err = ""
    /\ "accum" \in DOMAIN NodeNow(0)
    /\ C25_RowCounts

--------------------------------------------------------------------------
\* the last call is a slice of the Store that matched several relations
C26_Case ==
    /\ steps >= 1
    /\ last.op = "getitem" /\ last.o = 1
    /\ Size(last.ret.etids) >= 2

\* the relations matched, their source and destination node types
MatchedEtids == ToSet(last.ret.etids)
MatchedStids == {find_edge(objs[1].g, e)[1] : e \in MatchedEtids}
MatchedDtids == {find_edge(objs[1].g, e)[2] : e \in MatchedEtids}

\* the frames the parent had for these types before the call
ParentFrames(kind, ids) ==
    {IF kind = "node" THEN pre.O[1].nf[t] ELSE pre.O[1].ef[t] : t \in ids}

\* the fields every one of the frames holds, and whether one of them has
\* rows of different shapes in two of the frames
CommonFields(fids) == {k \in UNION {Keys(PreWorld, f) : f \in fids} :
                          \A f \in fids : k \in Keys(PreWorld, f)}
SchemesDiffer(fids) ==
    \E k \in CommonFields(fids) :
        \E f1 \in fids, f2 \in fids : Scheme(PreWorld, f1, k) # Scheme(PreWorld, f2, k)

\* the names of the Store's types in lexicographic order, joined by '+'
JoinedName(S) ==
    CASE S = {"user"} -> "user"
      [] S = {"game"} -> "game"
      [] S = {"user", "game"} -> "game+user"
      [] S = {"follows", "likes"} -> "follows+likes"
      [] S = {"follows", "plays"} -> "follows+plays"
      [] S = {"likes", "plays"} -> "likes+plays"
      [] S = {"follows", "likes", "plays"} -> "follows+likes+plays"

NamesOf(names, ids) == {names[i] : i \in ids}

\* C26: a slice that matches several canonical edge types leaves the
\* parent's frames as they were; if a field that all the merged frames of
\* the source types, of the destination types or of the relations hold has
\* different schemes in two of them, the slice is an error; otherwise it
\* gives a Store whose node and edge type names are the sorted names of the
\* merged types joined by '+', and whose frames hold the fields common to
\* all the merged frames and the type and id tags, and no other field.
C26_FlattenedSlice ==
    C26_Case =>
        LET g == pre.O[1].g
            two == MatchedStids # MatchedDtids
            sfr == ParentFrames("node", MatchedStids)
            dfr == ParentFrames("node", MatchedDtids)
            efr == ParentFrames("edge", MatchedEtids)
            new == objs[Len(objs)]
        IN  /\ objs[1] = pre.O[1]
            /\ \A fid \in FramesOf(pre.O, 1) :
                   FrameView(tensors, frames, fid) = FrameView(pre.T, pre.F, fid)
            /\ SchemesDiffer(sfr) \/ SchemesDiffer(dfr) \/ SchemesDiffer(efr) =>
                   last.err = ErrConcat /\ Len(objs) = Len(pre.O)
            /\ last.err = "" =>
                   /\ Len(objs) = Len(pre.O) + 1
                   /\ new.g.ntypes[0] = JoinedName(NamesOf(g.ntypes, MatchedStids))
                   /\ two => new.g.ntypes[1] = JoinedName(NamesOf(g.ntypes, MatchedDtids))
                   /\ Size(new.g.ntypes) = IF two THEN 2 ELSE 1
                   /\ new.g.etypes = ZSeq(<<JoinedName(NamesOf(g.etypes, MatchedEtids))>>)
                   /\ Keys(World, new.nf[0]) = CommonFields(sfr) \cup {NTYPE, NID}
                   /\ two => Keys(World, new.nf[1]) = CommonFields(dfr) \cup {NTYPE, NID}
                   /\ Keys(World, new.ef[0]) = CommonFields(efr) \cup {ETYPE, EID}

\* g['user', :, :] on the Store whose games hold h with rows of the shape
\* of the users' h: the slice is user -> game+user over the relation
\* follows+likes+plays; the destination frame holds h of the two users and
\* of the game, and not x, which the games lack; the edge frame holds w
C26_Witness ==
    /\ C26_Case /\ steps = 1 /\ last.err = ""
    /\ last.etype = TupleArg(<<"user", SLICE_FULL, SLICE_FULL>>)
    /\ objs[2].g.ntypes = ZSeq(<<"user", "game+user">>)
    /\ objs[2].g.etypes = ZSeq(<<"follows+likes+plays">>)
    /\ FrameData(World, objs[2].nf[1]) =
           ("h" :> ZSeq(<< <<11>>, <<12>>, <<21>> >>))
               @@ (NTYPE :> ZSeq(<<0, 0, 1>>)) @@ (NID :> ZSeq(<<0, 1, 0>>))
    /\ Keys(World, objs[2].nf[0]) = {"h", "x", NTYPE, NID}
    /\ Keys(World, objs[2].ef[0]) = {"w", ETYPE, EID}
    /\ objs[2].g.edges[0] = ZSeq(<< <<0, 1>>, <<0, 2>>, <<1, 2>>, <<1, 0>> >>)

\* the same slice on the Store whose games hold h with rows of another
\* shape is refused
C26_SchemeMismatch ==
    /\ C26_Case /\ steps = 1
    /\ last.etype = TupleArg(<<"user", SLICE_FULL, SLICE_FULL>>)
    /\ SchemesDiffer(ParentFrames("node", MatchedDtids))
    /\ last.err = ErrConcat

--------------------------------------------------------------------------
\* the messages of the relation of the last call before that call
MsgBefore(etid) == pre.O[1].mf[etid]["m"]

C27_Case == steps >= 1 /\ last.op = "recv" /\ last.err = ""

\* a send, then a recv, then another recv
C27_SecondRecv ==
    /\ steps = 3
    /\ history[1].op = "send" /\ history[2].op = "recv" /\ last.op = "recv"

\* C27: recv on V takes the pending messages on the in-edges of V and no
\* other: a message pending on an edge into a node outside V is pending
\* after the call with the content it had; and a later recv on that node,
\* with no send in between, reduces over it as it was sent.
C27_RecvConsumesOnlyInEdges ==
    /\ C27_Case =>
           \A e \in last.pend[LastEtid] :
               IF EdgeDst(objs[1].g, LastEtid, e) \in LastNodes
               THEN e \notin Pending(objs[1], LastEtid)
               ELSE /\ e \in Pending(objs[1], LastEtid)
                    /\ MsgNow(LastEtid)[e] = MsgBefore(LastEtid)[e]
    /\ C27_SecondRecv =>
           LET g == objs[1].g
               sent == EdgeSelection(g, 0, history[1].sel)
               first == NodeSelection(g, 0, history[2].sel)
               val == [e \in sent |-> history[1].mfn.k * (EdgeSrc(g, 0, e) + 1)]
           IN  \A v \in LastNodes \ first :
                   LET box == Mailbox(0, sent, v) IN
                   box # {} =>
                       /\ v \in Reduced
                       /\ HoldsAfter(last.rf, last.af, 0, v,
                                     ReduceOf(last.rf, 0, v, box, val))

\* on 0->1->2 with h = (1, 2, 3): messages 3 * h are sent on both edges,
\* recv on node 1 takes the message of edge 0 and changes h of node 1; the
\* message of edge 1, sent from the old h of node 1, stays pending and the
\* recv on node 2 that follows delivers it: max(3 * 2) = 6
C27_Witness ==
    /\ C27_SecondRecv
    /\ objs[1].g = GraphChain
    /\ history[1].sel = ALL /\ history[1].mfn = copy_src_h3
    /\ history[2].sel = IdsOf({1}) /\ history[2].rf = reduce_add_h
    /\ last.sel = IdsOf({2}) /\ last.rf = reduce_max_h
    /\ last.pend[0] = {1}
    /\ MsgBefore(0)[1] = 6
    /\ NodeBefore(0)["h"] = ZSeq(<<1, 10, 3>>)
    /\ NodeNow(0)["h"] = ZSeq(<<1, 10, 6>>)
    /\ Pending(objs[1], 0) = {}

--------------------------------------------------------------------------
(***************************************************************************)
(* multi_send_and_recv and multi_pull with relations that contribute no    *)
(* output frame, and with cross reducers of any name.                      *)
(***************************************************************************)
MaxMerge == 2

\* the dictionaries: one or two relations into the users, each with its own
\* list of edges, empty or [0]
MergeDicts(rf) ==
    {[i \in DOMAIN keys |->
         DictEntry(StrArg(keys[i]), edges[i],
                   IF i = 1 THEN copy_src_h ELSE copy_src_h3, rf, NoFn)] :
        keys \in {<<"follows">>, <<"follows", "attracts">>},
        edges \in {<<Ids(EmptyMap), Ids(EmptyMap)>>, <<IdsOf({0}), Ids(EmptyMap)>>,
                   <<Ids(EmptyMap), IdsOf({0})>>, <<IdsOf({0}), IdsOf({0})>>}}

\* <<cross_reducer, reduce function of every item, apply_node_func>>: two of
\* the five names and a name the backend does not have
MergeArgs ==
    {<<"sum", reduce_sum_h, NoFn>>, <<"sum", reduce_sum_h, apply_double>>,
     <<"stack", reduce_accum, NoFn>>,
     <<"bogus", reduce_sum_h, NoFn>>, <<"bogus", reduce_sum_h, apply_double>>}

InitMerge == InitWith(Store(GraphMultiRel, ZeroInitializer))

NextMerge ==
    \/ /\ steps < MaxMerge
       /\ \E a \in MergeArgs : \E d \in MergeDicts(a[2]) :
              MultiSendAndRecv(d, a[1], a[3])
    \/ /\ steps < MaxMerge
       /\ \E keys \in {<<"follows">>, <<"follows", "attracts">>}, a \in MergeArgs :
              MultiPull(IdsOf({1}), MultiDict(keys, ALL, a[2]), a[1], a[3])

SpecMerge == InitMerge /\ [][NextMerge]_vars

\* the items of the last call's dictionary whose relation gives an output
\* frame: multi_send_and_recv passes over an item with no edge
Contributing ==
    IF last.op = "multi_send_and_recv"
    THEN {i \in DOMAIN last.dict : RelSent(i) # {}}
    ELSE DOMAIN last.dict

C28_Case ==
    /\ IsMulti
    /\ Cardinality(Contributing) = 1

\* the invalid-reducer error is raised only by a call that merges two or
\* more frames
InvalidOnlyForSeveral ==
    (IsMulti /\ last.err = ErrInvalidCrossReducer) => Cardinality(Contributing) >= 2

\* the one frame is written as it is
OneFrameUnchanged ==
    C28_Case =>
        LET i == CHOOSE i \in Contributing : TRUE
            T == KeyDtid(i)
            rf == last.dict[i].rf
        IN  /\ last.err = ""
            /\ rf.out \in DOMAIN NodeNow(T)
            /\ \A r \in RelNodes(i) :
                   IF r \in MultiApplied
                   THEN HoldsAfter(rf, last.af, T, r, RelOut(i, r))
                   ELSE NodeNow(T)[rf.out][r] = RelOut(i, r)

C28_StackOfOne ==
    /\ C28_Case /\ steps = 1
    /\ last.op = "multi_send_and_recv" /\ last.cross = "stack" /\ last.af.none
    /\ Len(last.dict) = 2 /\ Contributing = {1}
    /\ last.err = ""
    /\ NodeNow(0)["accum"][1] = 1

--------------------------------------------------------------------------
\* multi_send_and_recv in which no item of the dictionary has an edge
C29_Case ==
    /\ steps >= 1
    /\ last.op = "multi_send_and_recv"
    /\ Contributing = {}

\* C29: multi_send_and_recv in which the edges of every relation are empty
\* returns without an error, invokes no message and no reduce function and
\* leaves the node frames as they were.
C29_AllEmptyIsNoOp ==
    C29_Case =>
        /\ last.err = ""
        /\ calls = <<>>
        /\ NodeFramesOf(World) = NodeFramesOf(PreWorld)

\* what the call does: merge_frames of no frame fails, with the
\* invalid-reducer error if the name is not a reducer and with IndexError
\* (frames[0] of the empty list) otherwise; nothing was invoked or written
C29_AllEmptyRaises ==
    C29_Case =>
        /\ last.err = IF last.cross \in CrossReducers THEN ErrIndex
                      ELSE ErrInvalidCrossReducer
        /\ calls = <<>>
        /\ NodeFramesOf(World) = NodeFramesOf(PreWorld)

C29_IndexError ==
    /\ C29_Case /\ steps = 1
    /\ Len(last.dict) = 2 /\ last.cross = "sum"
    /\ last.err = ErrIndex

--------------------------------------------------------------------------
(***************************************************************************)
(* Messages and the objects that hold them: send and recv on the Store, in *)
(* and out of a local_scope block, and on the objects made by local_var    *)
(* and by a relation slice.                                                *)
(***************************************************************************)
MaxBuffer == 3

\* g.send(edges, message_func, etype) and g.recv(v, reduce_func, etype=etype)
\* on object o
SendOn(o, edges, mfn, etype) ==
    Step(Call("send", o, edges, etype, mfn, NoReduceFn, NoFn, FALSE),
         send(World, o, edges, mfn, etype))
    /\ UNCHANGED scopes

RecvOn(o, v, rf, af, etype) ==
    Step(Call("recv", o, v, etype, NoMsgFn, rf, af, FALSE),
         recv(World, o, v, rf, af, etype, FALSE))
    /\ UNCHANGED scopes

\* the relations of object o, by name
RelationArgs(o) == {StrArg(objs[o].g.etypes[t]) : t \in DOMAIN objs[o].g.etypes}

InitBuffer == InitWith(Store(GraphTwoRel, ZeroInitializer))

NextBuffer ==
    \/ /\ steps < MaxBuffer
       /\ scopes[1] = <<>>
       /\ EnterLocalScope(1)
    \/ /\ steps < MaxBuffer
       /\ ExitLocalScope(1)
    \/ /\ steps < MaxBuffer
       /\ Len(objs) < 3
       /\ LocalVar(1)
    \/ /\ steps < MaxBuffer
       /\ Len(objs) < 3
       /\ \E key \in {StrArg("follows"), StrArg("plays")} : Slice(1, key)
    \/ /\ steps < MaxBuffer
       /\ \E o \in DOMAIN objs : \E etype \in RelationArgs(o), edges \in {ALL, IdsOf({0})} :
              SendOn(o, edges, copy_src_h, etype)
    \/ /\ steps < MaxBuffer
       /\ \E o \in DOMAIN objs : \E etype \in RelationArgs(o) :
              RecvOn(o, ALL, reduce_sum_h, NoFn, etype)

SpecBuffer == InitBuffer /\ [][NextBuffer]_vars

\* the message indicators and message frames of object o among the objects O
BuffersOf(O, o) == [mi |-> O[o].mi, mf |-> O[o].mf]

NothingPending(obj) ==
    \A t \in DOMAIN obj.mi :
        /\ obj.mi[t] = MsgIndexNone
        /\ obj.mf[t] = EmptyMap
        /\ Pending(obj, t) = {}

\* the relation and the edges of a send in the history
EtidOf(c) == get_etype_id(objs[c.o].g, c.etype).val
SentBy(c) == EdgeSelection(objs[c.o].g, EtidOf(c), c.sel)

\* the sends on object o after the m-th call that no later recv on o followed
UnreceivedSends(o, m) ==
    {j \in (m + 1)..steps :
        /\ history[j].op = "send" /\ history[j].o = o /\ history[j].err = ""
        /\ \A k \in (j + 1)..steps : ~(history[k].op = "recv" /\ history[k].o = o)}

\* entering and leaving a block leaves the message buffers alone, and what
\* was sent in the block and not received is pending when the block is left
ScopeKeepsMessages ==
    /\ last.op \in {"local_scope_enter", "local_scope_exit"} =>
           BuffersOf(objs, last.o) = BuffersOf(pre.O, last.o)
    /\ last.op = "local_scope_exit" =>
           \A j \in UnreceivedSends(last.o, EnterOf(steps)) :
               SentBy(history[j]) \subseteq Pending(objs[last.o], EtidOf(history[j]))

\* the object made by local_var or by a slice has nothing pending
NewObjectHasNoMessages ==
    (last.op \in {"local_var", "getitem"} /\ last.err = "") =>
        NothingPending(objs[Len(objs)])

\* a send or a recv on one object leaves the buffers of the others alone
SendStaysOnItsObject ==
    last.op \in {"send", "recv"} =>
        \A p \in DOMAIN pre.O \ {last.o} : BuffersOf(objs, p) = BuffersOf(pre.O, p)

\* C30: the message buffers are not scoped state: local_scope puts back
\* only the node and edge frames, so a message sent in the block and not
\* received there is pending after it; the objects made by local_var and
\* by a relation slice start with empty buffers of their own, and a send
\* through them marks nothing pending on the object they were made from.
C30_MessagesAreNotScoped ==
    /\ ScopeKeepsMessages
    /\ NewObjectHasNoMessages
    /\ SendStaysOnItsObject

\* enter, send on every edge of follows, exit: both edges are pending
C30_Witness ==
    /\ steps = 3
    /\ history[1].op = "local_scope_enter"
    /\ history[2].op = "send" /\ history[2].etype = StrArg("follows")
    /\ history[2].sel = ALL
    /\ last.op = "local_scope_exit"
    /\ Pending(objs[1], 0) = {0, 1}

\* send on the Store, local_var, send through the local_var object: the
\* new object started empty and its send is pending on it alone
C30_SendThroughLocalVar ==
    /\ steps = 3
    /\ history[1].op = "send" /\ history[1].o = 1 /\ history[1].sel = ALL
    /\ history[1].etype = StrArg("plays")
    /\ history[2].op = "local_var"
    /\ last.op = "send" /\ last.o = 2 /\ last.etype = StrArg("follows")
    /\ Pending(objs[2], 0) # {} /\ Pending(objs[2], 1) = {}
    /\ Pending(objs[1], 0) = {} /\ Pending(objs[1], 1) = {0, 1, 2, 3}

\* the same through the slice g['plays']
C30_SendThroughSlice ==
    /\ steps = 2
    /\ history[1].op = "getitem" /\ history[1].etype = StrArg("plays")
    /\ last.op = "send" /\ last.o = 2 /\ last.err = ""
    /\ Pending(objs[2], 0) # {}
    /\ NothingPending(objs[1])

====
